---- MODULE Spec2Model ----
(***************************************************************************)
(* Model of the NEST / A2A integration layer of the NASDAQ stock agent:     *)
(*   src/src/nest/registry.py   RegistryClient (retry policy, public ops)   *)
(*   src/src/nest/bridge.py     StockAgentBridge                            *)
(*   src/src/nest/adapter.py    StockAgentNEST (start / stop / heartbeat)   *)
(*   src/src/nest/launcher.py   AgentLauncher (run modes, shutdown)         *)
(*   src/src/nest/config.py     NESTConfig (validation, agent documents)    *)
(*   src/src/nest/query_parser.py  ticker extraction and validation         *)
(*                                                                         *)
(* Specifications sharing the module:                                      *)
(*   SpecRegistry  one RegistryClient driven by a sequential caller         *)
(*   SpecAdapter   one StockAgentNEST driven by start / stop calls          *)
(*   SpecLife      one AgentLauncher, its adapter and their asyncio tasks   *)
(*   SpecLife2     SpecLife with a second start_* call on the launcher      *)
(*   SpecDual      start_dual alone, with the event loop's fairness         *)
(*   SpecBridge    one StockAgentBridge handling inbound messages           *)
(*   SpecHeartbeat one adapter started with start_async, and its heartbeat  *)
(*   SpecParser    one call of a parsing function on a text                 *)
(*   SpecCancel    SpecLife in which the start_* call may be cancelled      *)
(*   SpecServe     one adapter, its heartbeat and one call of its bridge    *)
(*   SpecMain      main() of the launcher, for every configuration          *)
(***************************************************************************)
EXTENDS Integers, Sequences, FiniteSets, TLC

VARIABLES
    \* ---- RegistryClient fields (registry.py:45-51)
    registered,      \* self._registered
    session,         \* self._session: "none" | "open" | "closed"
    max_retries,     \* self.max_retries
    retry_delay,     \* self.retry_delay (seconds)
    \* ---- one public RegistryClient call in progress (SpecRegistry)
    r_pc,            \* "idle" | "http" (awaiting the response) | "sleep" (backoff)
    r_op,            \* the public method being executed, "none" before the first
    r_retry_count,   \* retry_count argument of the current _make_request frame
    r_attempts,      \* HTTP requests sent by the current call
    r_waits,         \* delays slept by the current call, in order
    r_hist,          \* what the registry/transport answered to each attempt
    r_ret,           \* value the public method returned
    r_before,        \* self._registered when the call was made
    r_audit,         \* audit events the current call handed to logging_service
    r_calls,         \* public calls made so far
    r_prev,          \* whether the call before was a deregister, and what it returned
    \* ---- configuration and environment of the adapter / launcher
    cfg_registry,    \* config.registry_url is set (the adapter has a registry_client)
    cfg_nest_ok,     \* config.should_enable_nest()
    a2a_ok,          \* `from a2a import SimpleAgentBridge` succeeds
    config,          \* the NESTConfig: the fields validate() and the agent documents read
    peer_doc,        \* the last document served to a peer: get_status or /nest/config
    \* ---- StockAgentNEST (adapter.py:86-88)
    a_running,       \* self._is_running
    \* ---- AgentLauncher (launcher.py:43-47)
    nest_adapter,    \* self.nest_adapter is set
    l_running,       \* self._running
    shutdown_event,  \* self._shutdown_event.is_set()
    fastapi_server,  \* self.fastapi_server: 0 (None) or the number of the Server object
    should_exit,     \* should_exit of each Server object
    \* ---- asyncio tasks
    srv,             \* state of each Server's serve() run
    evwait,          \* the task wrapping _shutdown_event.wait() in start_dual
    pc,              \* where each task is suspended
    ready,           \* tasks created and not yet run, in creation order
    rq,              \* the registry request a task has in flight: [op, rc]
    ctx,             \* whose code continues when that request returns
    mode,            \* which start_* method the main caller used
    \* ---- observations
    l_res,           \* how each launcher start_* call ended
    u_calls,         \* adapter API calls made by the direct caller
    u_last,          \* the last such call
    u_register,      \* the register argument of the last start / start_async call
    u_res,           \* and how it ended
    last_reg,        \* what the last _register_with_registry returned
    last_hb,         \* what update_status returned to the latest heartbeat, until a
                     \* heartbeat loop next tests `while self._is_running`
    n_starts,        \* adapter starts that set _is_running
    n_stops,         \* stop sequences run (stop / stop_async past the guard)
    n_reg,           \* register_agent calls made
    n_dereg,         \* DELETE requests issued by deregister
    n_hb,            \* heartbeat loops created
    \* ---- one StockAgentBridge call (SpecBridge)
    b_pc,            \* "called" | "lookup" | "post" | "analysis" | "done"
    b_entry,         \* the method called: process_stock_query | handle_a2a_message
    b_env,           \* the inbound A2A message around the query
    b_query,         \* the query text, a sequence of lexemes
    b_rc,            \* retry_count of the registry lookup in flight
    b_resp,          \* what send_to_agent returned
    b_out,           \* what the call returned to its caller, or that it raised
    b_audit,         \* the events the call passed to logging_service.log_nest_message
    b_calls,         \* the calls of perform_complete_analysis: (ticker, query_text)
    b_posts,         \* POST requests sent to the peer's /a2a endpoint
    b_peer,          \* how the peer answered the POST
    b_analysis,      \* how perform_complete_analysis ended
    \* ---- the StockAgentBridge object of the adapter (bridge.py:70-79)
    bridge_session,            \* bridge._session: "none" | "open" | "closed"
    bridge_registry_session,   \* bridge.registry_client._session
    bridge_registered,         \* bridge.registry_client._registered
    \* ---- one call of a parsing function (SpecParser)
    p_pc,            \* "called" | "again" | "done"
    p_fn,            \* parse_agent_mention | parse_query_intent | is_valid_ticker
    p_text,          \* the text passed to it, a sequence of lexemes
    p_str,           \* the string passed to is_valid_ticker
    p_ret,           \* what it returned
    p_again          \* parse_agent_mention of the remainder it returned

regVars == <<registered, session, max_retries, retry_delay>>
callVars == <<r_pc, r_op, r_retry_count, r_attempts, r_waits, r_hist, r_ret,
              r_before, r_audit, r_calls, r_prev>>
cfgVars == <<cfg_registry, cfg_nest_ok, a2a_ok, config, peer_doc>>
parserVars == <<p_pc, p_fn, p_text, p_str, p_ret, p_again>>
messageVars == <<b_pc, b_entry, b_env, b_query, b_rc, b_resp, b_out, b_audit,
                 b_calls, b_posts, b_peer, b_analysis>>
sessionVars == <<bridge_session, bridge_registry_session, bridge_registered>>
bridgeVars == <<messageVars, parserVars, sessionVars>>
lifeVars == <<a_running, nest_adapter, l_running, shutdown_event, fastapi_server,
              should_exit, srv, evwait, pc, ready, rq, ctx, mode, l_res, u_calls, u_last,
              u_register, u_res, last_reg, last_hb, n_starts, n_stops, n_reg, n_dereg, n_hb>>

(***************************************************************************)
(* Bounds of the model.                                                    *)
(***************************************************************************)
MaxRetries == 3      \* max_retries is drawn from 0..MaxRetries
MaxDelay == 2        \* retry_delay is drawn from 1..MaxDelay
MaxCalls == 3        \* public RegistryClient calls made in a row

(***************************************************************************)
(* HTTP: what one attempt can end in.                                      *)
(***************************************************************************)
Statuses == {200, 201, 204, 400, 404, 500, 503}

\* JSON bodies of a 200/201 answer, by the shape the client looks at.
\* dict_url holds a string under "agent_url"; dict_agents, dict_agents_text and
\* dict_agents_null hold a list, a string and null under "agents".
Bodies == {"dict_url", "dict_agents", "dict_agents_text", "dict_agents_null",
           "dict_plain", "list", "number", "empty_dict", "empty_list", "null"}

\* An attempt ends in a status line (with a body) or in a raised exception.
Outcomes ==
    [kind : {"status"}, status : {200, 201}, body : Bodies]
    \cup [kind : {"status"}, status : Statuses \ {200, 201}, body : {"null"}]
    \cup [kind : {"ClientError", "TimeoutError", "Exception"},
          status : {0}, body : {"null"}]

\* response.json(): JSON null decodes to None.
json(body) == IF body = "null" THEN "None" ELSE body

\* Python truthiness of a value returned by _make_request.
Truthy(v) == v \notin {"None", "empty_dict", "empty_list"}

\* `key in response` for the keys the client tests.
HasKey(v, key) ==
    \/ key = "agent_url" /\ v = "dict_url"
    \/ key = "agents" /\ v \in {"dict_agents", "dict_agents_text", "dict_agents_null"}

\* `key in response` raises TypeError on a JSON number.
KeyTestRaises(v) == v = "number"

IsList(v) == v \in {"list", "empty_list"}

RECURSIVE Pow2(_)
Pow2(n) == IF n <= 0 THEN 1 ELSE 2 * Pow2(n - 1)

(***************************************************************************)
(* RegistryClient._make_request / _retry_request                           *)
(***************************************************************************)
\* What one _make_request frame does with the outcome of its attempt:
\* "return" (with value) or "retry".
\* (make_request_one_more is the variant that allows one retry too many.)
make_request_one_more(o, retry_count, maxr) ==
    CASE o.kind = "status" /\ (o.status = 200 \/ o.status = 201) ->
            [do |-> "return", value |-> json(o.body)]
      [] o.kind = "status" ->
            IF o.status >= 500 /\ retry_count <= maxr
            THEN [do |-> "retry", value |-> "None"]
            ELSE [do |-> "return", value |-> "None"]
      [] o.kind \in {"ClientError", "TimeoutError"} ->
            IF retry_count <= maxr
            THEN [do |-> "retry", value |-> "None"]
            ELSE [do |-> "return", value |-> "None"]
      [] OTHER -> [do |-> "return", value |-> "None"]

make_request(o, retry_count, maxr) ==
    CASE o.kind = "status" /\ (o.status = 200 \/ o.status = 201) ->
            [do |-> "return", value |-> json(o.body)]
      [] o.kind = "status" ->
            IF o.status >= 500 /\ retry_count < maxr
            THEN [do |-> "retry", value |-> "None"]
            ELSE [do |-> "return", value |-> "None"]
      [] o.kind \in {"ClientError", "TimeoutError"} ->
            IF retry_count < maxr
            THEN [do |-> "retry", value |-> "None"]
            ELSE [do |-> "return", value |-> "None"]
      [] OTHER -> [do |-> "return", value |-> "None"]

\* _retry_request: the delay slept before the retry numbered retry_count
\* (already incremented).
retry_request_delay(delay, retry_count) == delay * Pow2(retry_count - 1)

\* _get_session: a session is created when there is none or it is closed.
get_session(s) == IF s = "none" \/ s = "closed" THEN "open" ELSE s

\* close(): closes an open session, leaves anything else alone.
close(s) == IF s = "open" THEN "closed" ELSE s

(***************************************************************************)
(* The public methods, from the value _make_request returned:              *)
(* [ret, registered, audit] = return value, new self._registered, events.  *)
(***************************************************************************)
Ev(op, status) == [operation |-> op, status |-> status]

\* (register_agent_sets_flag is the variant that marks the client registered
\* whatever the registry answered.)
register_agent_sets_flag(resp, reg) ==
    [ret |-> IF Truthy(resp) THEN "True" ELSE "False", registered |-> TRUE,
     audit |-> <<Ev("register", IF Truthy(resp) THEN "success" ELSE "error")>>]

register_agent(resp, reg) ==
    IF Truthy(resp)
    THEN [ret |-> "True", registered |-> TRUE,
          audit |-> <<Ev("register", "success")>>]
    ELSE [ret |-> "False", registered |-> reg,
          audit |-> <<Ev("register", "error")>>]

\* (update_status_clears_flag is the variant in which a failed status update
\* marks the client unregistered.)
update_status_clears_flag(resp, reg) ==
    [ret |-> IF Truthy(resp) THEN "True" ELSE "False",
     registered |-> IF Truthy(resp) THEN reg ELSE FALSE, audit |-> <<>>]

update_status(resp, reg) ==
    [ret |-> IF Truthy(resp) THEN "True" ELSE "False",
     registered |-> reg, audit |-> <<>>]

\* (lookup_agent_any_body is the variant that does not test for "agent_url".)
lookup_agent_any_body(resp, reg) ==
    IF Truthy(resp)
    THEN [ret |-> "url", registered |-> reg,
          audit |-> <<Ev("lookup", "success")>>]
    ELSE [ret |-> "None", registered |-> reg,
          audit |-> <<Ev("lookup", "error")>>]

lookup_agent(resp, reg) ==
    CASE Truthy(resp) /\ KeyTestRaises(resp) ->        \* except Exception
            [ret |-> "None", registered |-> reg,
             audit |-> <<Ev("lookup", "error")>>]
      [] Truthy(resp) /\ HasKey(resp, "agent_url") ->
            [ret |-> "url", registered |-> reg,
             audit |-> <<Ev("lookup", "success")>>]
      [] OTHER ->
            [ret |-> "None", registered |-> reg,
             audit |-> <<Ev("lookup", "error")>>]

\* response["agents"], as list_agents returns it after len(agents): a list, a
\* string, or TypeError for null.
agents_field(resp) ==
    CASE resp = "dict_agents" -> "agents"
      [] resp = "dict_agents_text" -> "text"
      [] OTHER -> "TypeError"

list_agents(resp, reg) ==
    [ret |-> CASE Truthy(resp) /\ IsList(resp) -> "agents"
               [] Truthy(resp) /\ KeyTestRaises(resp) -> "empty_list"  \* except Exception
               [] Truthy(resp) /\ HasKey(resp, "agents") ->
                     IF agents_field(resp) = "TypeError" THEN "empty_list"
                     ELSE agents_field(resp)
               [] OTHER -> "empty_list",
     registered |-> reg, audit |-> <<>>]

\* deregister: `if not self._registered: return True` comes before anything
\* is sent.  (deregister_always_sends is the variant without that test.)
deregister_always_sends(reg) == TRUE
deregister_sends(reg) == reg

\* deregister, after the DELETE (the client was registered).
deregister(resp, reg) ==
    IF Truthy(resp) \/ resp = "None"
    THEN [ret |-> "True", registered |-> FALSE,
          audit |-> <<Ev("deregister", "success")>>]
    ELSE [ret |-> "False", registered |-> reg,
          audit |-> <<Ev("deregister", "error")>>]

Ops == {"register", "update_status", "lookup", "list", "deregister"}

Finish(op, resp, reg) ==
    CASE op = "register" -> register_agent(resp, reg)
      [] op = "update_status" -> update_status(resp, reg)
      [] op = "lookup" -> lookup_agent(resp, reg)
      [] op = "list" -> list_agents(resp, reg)
      [] OTHER -> deregister(resp, reg)

\* The values by which each public method reports failure.
FailureValue(op) ==
    CASE op \in {"register", "update_status", "deregister"} -> "False"
      [] op = "lookup" -> "None"
      [] OTHER -> "empty_list"

(***************************************************************************)
(* The asyncio tasks of the adapter and the launcher.                      *)
(***************************************************************************)
MaxStarts == 2       \* adapter starts that get past the guard
MaxShutdowns == 2    \* AgentLauncher.shutdown() calls
MaxUserCalls == 3    \* start/stop calls made directly on the adapter

\* RegistryClient defaults, used by the adapter (adapter.py:80-83).
DefaultMaxRetries == 3
DefaultRetryDelay == 1

Main == <<"main", 0>>         \* the caller of start_standalone/start_nest/start_dual
Second == <<"second", 0>>     \* a second caller, of start_standalone
User == <<"user", 0>>         \* a caller of the adapter's own start/stop methods
ShutTasks == {<<"shut", i>> : i \in 1..MaxShutdowns}      \* shutdown() calls
HbTasks == {<<"hb", i>> : i \in 1..MaxStarts}             \* _start_heartbeat()
RegTasks == {<<"reg", i>> : i \in 1..MaxStarts}           \* start(): create_task(_register_with_registry())
DeregTasks == {<<"dereg", i>> : i \in 1..MaxStarts}       \* stop(): create_task(deregister())
CloseTasks == {<<"close", i>> : i \in 1..MaxStarts}       \* stop(): create_task(close())
Spawned == HbTasks \cup RegTasks \cup DeregTasks \cup CloseTasks
Tasks == {Main, Second, User} \cup ShutTasks \cup Spawned

\* What a suspended task waits for: the answer to a registry request (op, and
\* the retry_count of the attempt) or a timer; the event loop runs the tasks
\* that were ready when the wait began (after) before it delivers the event.
NoRequest == [op |-> "none", rc |-> 0, after |-> {}]

Range(q) == {q[i] : i \in DOMAIN q}

(***************************************************************************)
(* NESTConfig (config.py).  Of a configuration the model keeps the fields  *)
(* validate() reads, the two mode flags and the API key; the other fields  *)
(* of the agent documents are the same in every configuration.             *)
(***************************************************************************)
Ports == {0, 1, 6000, 65535, 65536}
ApiKeys == {"None", "sk-ant-1", "sk-ant-2"}

Configs ==
    [enable_nest : BOOLEAN, enable_dual_mode : BOOLEAN,
     agent_id : {"", "nasdaq-stock-agent"}, agent_name : {"", "NASDAQ Stock Agent"},
     nest_port : Ports, capabilities : {<<>>, <<"stock_analysis">>},
     anthropic_api_key : ApiKeys]

\* NESTConfig(): the defaults of the dataclass (config.py:16-72)
DefaultConfig ==
    [enable_nest |-> FALSE, enable_dual_mode |-> FALSE,
     agent_id |-> "nasdaq-stock-agent", agent_name |-> "NASDAQ Stock Agent",
     nest_port |-> 6000, capabilities |-> <<"stock_analysis">>,
     anthropic_api_key |-> "None"]

\* ... with NEST_ENABLED=true
EnabledConfig == [DefaultConfig EXCEPT !.enable_nest = TRUE]

\* ---- validate (config.py:153-196): (is_valid, errors)
validate(c) ==
    IF ~c.enable_nest
    THEN [is_valid |-> TRUE, errors |-> <<>>]
    ELSE LET errors ==
                 (IF c.agent_id = "" THEN <<"NEST_AGENT_ID is required">> ELSE <<>>)
              \o (IF c.agent_name = "" THEN <<"NEST_AGENT_NAME is required">> ELSE <<>>)
              \o (IF c.nest_port <= 0 \/ c.nest_port > 65535
                  THEN <<"NEST_PORT must be between 1 and 65535">> ELSE <<>>)
              \o (IF c.capabilities = <<>>
                  THEN <<"Agent must have at least one capability">> ELSE <<>>)
         IN [is_valid |-> Len(errors) = 0, errors |-> errors]

\* ---- should_enable_nest (config.py:197-217)
should_enable_nest(c) ==
    IF ~c.enable_nest THEN FALSE
    ELSE IF ~validate(c).is_valid THEN FALSE
    ELSE TRUE

\* `self.public_url or f"http://localhost:{self.nest_port}"`, NEST_PUBLIC_URL unset
public_url(c) == <<"http://localhost:", c.nest_port>>

\* ---- get_agent_metadata (config.py:219-243)
get_agent_metadata(c) ==
    [agent_id |-> c.agent_id, agent_name |-> c.agent_name,
     public_url |-> public_url(c), anthropic_api_key |-> c.anthropic_api_key,
     capabilities |-> c.capabilities, port |-> c.nest_port]

\* ---- get_agent_config_for_communication (config.py:245-264)
get_agent_config_for_communication(c) ==
    [agent_id |-> c.agent_id, agent_name |-> c.agent_name,
     public_url |-> public_url(c), capabilities |-> c.capabilities]

\* ---- StockAgentNEST.get_agent_config (adapter.py:513-520)
get_agent_config(c) == get_agent_metadata(c)

\* ---- main (launcher.py:301-336): the start method it calls
main_mode(c) ==
    IF c.enable_dual_mode THEN "dual"
    ELSE IF should_enable_nest(c) THEN "nest"
    ELSE "standalone"

\* The configuration is one of configs; nothing has been served to a peer.
InitNest(configs) ==
    /\ config \in configs
    /\ cfg_nest_ok = should_enable_nest(config)
    /\ peer_doc = [via |-> "none"]

InitCfgIdle ==
    /\ cfg_registry = FALSE
    /\ InitNest({DefaultConfig})
    /\ a2a_ok = FALSE

InitTasks ==
    /\ a_running = FALSE
    /\ nest_adapter = FALSE
    /\ l_running = FALSE
    /\ shutdown_event = FALSE
    /\ fastapi_server = 0
    /\ should_exit = [i \in 1..2 |-> FALSE]
    /\ srv = [i \in 1..2 |-> "none"]
    /\ evwait = "none"
    /\ pc = [t \in Tasks |-> IF t \in Spawned THEN "unborn" ELSE "idle"]
    /\ ready = <<>>
    /\ rq = [t \in Tasks |-> NoRequest]
    /\ ctx = [t \in Tasks |-> "none"]
    /\ mode = "none"
    /\ l_res = [t \in {Main, Second} |-> "none"]
    /\ u_calls = 0
    /\ u_last = "none"
    /\ u_register = FALSE
    /\ u_res = "none"
    /\ last_reg = "none"
    /\ last_hb = "none"
    /\ n_starts = 0
    /\ n_stops = 0
    /\ n_reg = 0
    /\ n_dereg = 0
    /\ n_hb = 0

InitLifeIdle == InitTasks

\* No bridge call is in progress.
NoMessage == [kind |-> "none"]

\* No parsing function is being called on its own.
InitParserIdle ==
    /\ p_pc = "idle"
    /\ p_fn = "none"
    /\ p_text = <<>>
    /\ p_str = ""
    /\ p_ret = "none"
    /\ p_again = "none"

\* StockAgentBridge.__init__: no session yet, and a RegistryClient of its
\* own that has not registered.
InitSessions ==
    /\ bridge_session = "none"
    /\ bridge_registry_session = "none"
    /\ bridge_registered = FALSE

InitNoMessage ==
    /\ InitSessions
    /\ b_pc = "idle"
    /\ b_entry = "none"
    /\ b_env = NoMessage
    /\ b_query = <<>>
    /\ b_rc = 0
    /\ b_resp = NoMessage
    /\ b_out = NoMessage
    /\ b_audit = <<>>
    /\ b_calls = <<>>
    /\ b_posts = 0
    /\ b_peer = NoMessage
    /\ b_analysis = "none"

InitBridgeIdle == InitNoMessage /\ InitParserIdle

(***************************************************************************)
(* SpecRegistry: a caller makes public calls one after the other.          *)
(***************************************************************************)
InitClient ==
    /\ registered = FALSE
    /\ session = "none"
    /\ max_retries \in 0..MaxRetries
    /\ retry_delay \in 1..MaxDelay

InitCall ==
    /\ r_pc = "idle"
    /\ r_op = "none"
    /\ r_retry_count = 0
    /\ r_attempts = 0
    /\ r_waits = <<>>
    /\ r_hist = <<>>
    /\ r_ret = "none"
    /\ r_before = FALSE
    /\ r_audit = <<>>
    /\ r_calls = 0
    /\ r_prev = [op |-> "none", ret |-> "none", sent |-> FALSE]

\* A public method is called and runs to its first suspension: deregister on
\* an unregistered client returns at once, every other call opens the session
\* if needed and sends its first request.
Call(op) ==
    /\ r_pc = "idle"
    /\ r_calls < MaxCalls
    /\ r_calls' = r_calls + 1
    /\ r_op' = op
    /\ r_before' = registered
    /\ r_retry_count' = 0
    /\ r_waits' = <<>>
    /\ r_hist' = <<>>
    /\ r_audit' = <<>>
    /\ r_prev' = IF r_op = "deregister"
                 THEN [op |-> r_op, ret |-> r_ret, sent |-> r_attempts > 0]
                 ELSE [op |-> IF r_op = "none" THEN "none" ELSE "other",
                       ret |-> "none", sent |-> FALSE]
    /\ IF op = "deregister" /\ ~deregister_sends(registered)
       THEN /\ r_pc' = "idle"
            /\ r_attempts' = 0
            /\ r_ret' = "True"
            /\ UNCHANGED session
       ELSE /\ r_pc' = "http"
            /\ r_attempts' = 1
            /\ r_ret' = "none"
            /\ session' = get_session(session)
    /\ UNCHANGED <<registered, max_retries, retry_delay>>
    /\ UNCHANGED <<cfgVars, lifeVars, bridgeVars>>

\* The attempt in flight ends with outcome o; _make_request returns (and the
\* public method finishes) or goes to sleep before a retry.
Respond(o) ==
    /\ r_pc = "http"
    /\ r_hist' = Append(r_hist, o)
    /\ LET d == make_request(o, r_retry_count, max_retries) IN
       IF d.do = "retry"
       THEN /\ r_pc' = "sleep"
            /\ r_retry_count' = r_retry_count + 1
            /\ r_waits' = Append(r_waits,
                    retry_request_delay(retry_delay, r_retry_count + 1))
            /\ UNCHANGED <<registered, r_ret, r_audit>>
       ELSE LET f == Finish(r_op, d.value, registered) IN
            /\ r_pc' = "idle"
            /\ registered' = f.registered
            /\ r_ret' = f.ret
            /\ r_audit' = r_audit \o f.audit
            /\ UNCHANGED <<r_retry_count, r_waits>>
    /\ UNCHANGED <<session, max_retries, retry_delay, r_op, r_attempts,
                   r_before, r_calls, r_prev>>
    /\ UNCHANGED <<cfgVars, lifeVars, bridgeVars>>

\* The backoff sleep ends: _make_request runs again and sends the next request.
Wake ==
    /\ r_pc = "sleep"
    /\ r_pc' = "http"
    /\ r_attempts' = r_attempts + 1
    /\ session' = get_session(session)
    /\ UNCHANGED <<registered, max_retries, retry_delay, r_op, r_retry_count,
                   r_waits, r_hist, r_ret, r_before, r_audit, r_calls, r_prev>>
    /\ UNCHANGED <<cfgVars, lifeVars, bridgeVars>>

\* RegistryClient.close() between two calls.
Close ==
    /\ r_pc = "idle"
    /\ session = "open"
    /\ session' = close(session)
    /\ UNCHANGED <<registered, max_retries, retry_delay>>
    /\ UNCHANGED <<callVars, cfgVars, lifeVars, bridgeVars>>

NextRegistry ==
    \/ \E op \in Ops : Call(op)
    \/ \E o \in Outcomes : Respond(o)
    \/ Wake
    \/ Close

InitRegistry ==
    InitClient /\ InitCall /\ InitCfgIdle /\ InitLifeIdle /\ InitBridgeIdle

vars == <<regVars, callVars, cfgVars, lifeVars, bridgeVars>>

SpecRegistry == InitRegistry /\ [][NextRegistry]_vars

(***************************************************************************)
(* Observations on a call of SpecRegistry.                                 *)
(***************************************************************************)
Done == r_pc = "idle" /\ r_hist # <<>>
Last == r_hist[Len(r_hist)]
Is5xx(o) == o.kind = "status" /\ o.status >= 500
Is4xx(o) == o.kind = "status" /\ o.status >= 400 /\ o.status < 500
Is2xx(o) == o.kind = "status" /\ o.status >= 200 /\ o.status < 300
IsTransport(o) == o.kind \in {"ClientError", "TimeoutError"}
Retryable(o) == Is5xx(o) \/ IsTransport(o)
Succeeded(o) == o.kind = "status" /\ o.status \in {200, 201}

C2_NoRetryOn4xx ==
    \A k \in 1..Len(r_hist) :
        Is4xx(r_hist[k]) =>
            /\ k = Len(r_hist)
            /\ r_pc = "idle"
            /\ r_attempts = k
            /\ Len(r_waits) = k - 1
            /\ r_ret = FailureValue(r_op)

\* C3: register returns True and sets the registered flag when the POST is
\* answered with any 2xx status; on a non-2xx answer or a transport failure
\* it returns False and leaves the flag as it was before the call.
C3_RegisterContract ==
    (Done /\ r_op = "register") =>
        IF Is2xx(Last)
        THEN registered /\ r_ret = "True"
        ELSE r_ret = "False" /\ registered = r_before

\* C13: update_status never changes the registered flag: during and after
\* the call the flag is what it was when the call was made, whether the
\* update succeeded, was rejected or exhausted its retries.
C13_UpdateStatusKeepsFlag ==
    r_op = "update_status" => registered = r_before

\* A registered client whose status update failed after all its retries.
C13_Witness ==
    /\ Done /\ r_op = "update_status"
    /\ r_before /\ registered
    /\ max_retries >= 1
    /\ Len(r_hist) = max_retries + 1
    /\ Retryable(Last)
    /\ r_ret = "False"

\* A public method is called in this step.
Called(op) == r_pc = "idle" /\ r_calls' = r_calls + 1 /\ r_op' = op

\* The call made in this step returns at once: no request is sent and the
\* client is left as it was.
NoOpTrue ==
    /\ r_pc' = "idle"
    /\ r_attempts' = 0
    /\ r_ret' = "True"
    /\ regVars' = regVars

C15_DeregisterContract ==
    (Done /\ r_op = "deregister") =>
        /\ r_ret \in {"True", "False"}
        /\ r_ret = "True" <=> ~registered
        /\ r_ret = "True" => Is2xx(Last)
        /\ ~Is2xx(Last) => (r_ret = "False" /\ registered)

\* The answer carries a JSON object with an agent_url field.
HasAgentUrl(o) == o.body = "dict_url"

\* C16 (as stated): lookup_agent returns the URL of the body's agent_url
\* field when the registry answers 200 with a body containing agent_url, and
\* None in every other case.
C16_LookupAsStated ==
    (Done /\ r_op = "lookup") =>
        r_ret = IF Last.kind = "status" /\ Last.status = 200 /\ HasAgentUrl(Last)
                THEN "url" ELSE "None"

\* C16 (amended): lookup_agent returns the URL of the body's agent_url field
\* when the registry answers 200 or 201 with a JSON object containing
\* agent_url, and None in every other case: on 404, on any other failure
\* status, on transport failure, and on an answer whose body lacks agent_url.
C16_Lookup ==
    (Done /\ r_op = "lookup") =>
        r_ret = IF Succeeded(Last) /\ HasAgentUrl(Last) THEN "url" ELSE "None"

\* A lookup answered 200 without agent_url, after a retried timeout.
C16_Witness ==
    /\ Done /\ r_op = "lookup"
    /\ Len(r_hist) = 2
    /\ r_hist[1].kind = "TimeoutError"
    /\ Last.kind = "status" /\ Last.status = 200 /\ Last.body = "dict_plain"
    /\ r_ret = "None"

\* The values of the return type the claims give each public method: a
\* boolean, a URL or None, a list.
DeclaredValues(op) ==
    CASE op \in {"register", "update_status", "deregister"} -> {"True", "False"}
      [] op = "lookup" -> {"url", "None"}
      [] OTHER -> {"agents", "empty_list"}

\* C17: every public call ends by returning a value of its return type,
\* whatever was answered: register, update_status and deregister a boolean,
\* lookup_agent a URL or None, list_agents a list (empty on error), never
\* None and never an exception.
C17_NeverRaises ==
    (r_pc = "idle" /\ r_op # "none") => r_ret \in DeclaredValues(r_op)

\* C18: when every attempt of a register call ends in a connection error or
\* a timeout, max_retries + 1 attempts are made, the call returns False, and
\* one audit event has been logged for each attempt.
C18_AuditPerAttempt ==
    (Done /\ r_op = "register" /\ \A k \in 1..Len(r_hist) : IsTransport(r_hist[k])) =>
        /\ r_attempts = max_retries + 1
        /\ r_ret = "False"
        /\ Len(r_audit) = r_attempts

\* C19: when a public call that sent a request has returned, an audit event
\* for its outcome has been handed to the logging service: an event of that
\* operation, with status success or error as the call succeeded or failed.
C19_EveryOutcomeAudited ==
    Done =>
        \E k \in 1..Len(r_audit) :
            /\ r_audit[k].operation = r_op
            /\ r_audit[k].status = "error" <=> r_ret = FailureValue(r_op)

(***************************************************************************)
(* Adapter and launcher.  The code between two suspension points runs      *)
(* without interleaving, so each action below is the code from one         *)
(* suspension point (an HTTP response, a sleep, asyncio.wait, an awaited   *)
(* task) to the next.  The operators take the state as a record s and      *)
(* return the state reached; an action applies one of them.                *)
(***************************************************************************)
S == [a_running |-> a_running, registered |-> registered, session |-> session,
      nest_adapter |-> nest_adapter, l_running |-> l_running,
      shutdown_event |-> shutdown_event, fastapi_server |-> fastapi_server,
      should_exit |-> should_exit, srv |-> srv, evwait |-> evwait,
      pc |-> pc, ready |-> ready, rq |-> rq, ctx |-> ctx, mode |-> mode, l_res |-> l_res,
      u_calls |-> u_calls, u_last |-> u_last, u_register |-> u_register,
      u_res |-> u_res,
      last_reg |-> last_reg, last_hb |-> last_hb, n_starts |-> n_starts, n_stops |-> n_stops,
      n_reg |-> n_reg, n_dereg |-> n_dereg, n_hb |-> n_hb]

Set(s) ==
    /\ a_running' = s.a_running
    /\ registered' = s.registered
    /\ session' = s.session
    /\ nest_adapter' = s.nest_adapter
    /\ l_running' = s.l_running
    /\ shutdown_event' = s.shutdown_event
    /\ fastapi_server' = s.fastapi_server
    /\ should_exit' = s.should_exit
    /\ srv' = s.srv
    /\ evwait' = s.evwait
    /\ pc' = s.pc
    /\ ready' = s.ready
    /\ rq' = s.rq
    /\ ctx' = s.ctx
    /\ mode' = s.mode
    /\ l_res' = s.l_res
    /\ u_calls' = s.u_calls
    /\ u_last' = s.u_last
    /\ u_register' = s.u_register
    /\ u_res' = s.u_res
    /\ last_reg' = s.last_reg
    /\ last_hb' = s.last_hb
    /\ n_starts' = s.n_starts
    /\ n_stops' = s.n_stops
    /\ n_reg' = s.n_reg
    /\ n_dereg' = s.n_dereg
    /\ n_hb' = s.n_hb
    /\ UNCHANGED <<max_retries, retry_delay, cfgVars, callVars, bridgeVars>>

\* ---- guards of the entry points
\* start / start_async: `if self._is_running: raise RuntimeError`
start_refused_never(running) == FALSE
start_refused(running) == running

\* stop / stop_async: `if not self._is_running: return`
stop_skipped_never(running) == FALSE
stop_skipped(running) == ~running

\* start_standalone / start_nest / start_dual: `if self._running: raise RuntimeError`
launcher_refused(running) == running

\* ---- a registry request is sent by task t: _make_request up to the await
SendRequest(s, t, op, c) ==
    [s EXCEPT !.session = get_session(s.session),
              !.pc[t] = "http",
              !.rq[t] = [op |-> op, rc |-> 0, after |-> Range(s.ready)],
              !.ctx[t] = c]

\* asyncio.create_task: the new task is appended to the loop's ready queue.
CreateTask(s, t, first) ==
    [s EXCEPT !.pc[t] = first, !.ready = Append(@, t)]

\* The event task t waits for may be delivered.
Due(s, t) == s.rq[t].after \cap Range(s.ready) = {}

\* Task t starts a timer (asyncio.sleep) or another wait and suspends at p.
Suspend(s, t, p) ==
    [s EXCEPT !.pc[t] = p,
              !.rq[t] = [op |-> "none", rc |-> 0, after |-> Range(s.ready)],
              !.ctx[t] = "none"]

\* ---- how the callers of the adapter get their result
UserReturn(s, t, result) ==
    [s EXCEPT !.pc[t] = "idle", !.rq[t] = NoRequest, !.ctx[t] = "none",
              !.u_res = result]

\* A start_* call ends: `finally: self._running = False`.
LauncherEnd(s, t, how, result) ==
    [s EXCEPT !.pc[t] = how, !.rq[t] = NoRequest, !.ctx[t] = "none",
              !.l_running = FALSE, !.l_res[t] = result]

\* `if self.fastapi_server: self.fastapi_server.should_exit = True`
SetExit_skipped(s) == s
SetExit(s) ==
    IF s.fastapi_server # 0
    THEN [s EXCEPT !.should_exit[s.fastapi_server] = TRUE]
    ELSE s

\* shutdown(), after the adapter has been dealt with (launcher.py:284-289).
ShutTail(s, t) ==
    [SetExit(s) EXCEPT !.l_running = FALSE, !.pc[t] = "done",
                       !.rq[t] = NoRequest, !.ctx[t] = "none"]

\* ---- stop_async (adapter.py:419-461), called by task t in context c
AfterStop(s, t, c) ==
    CASE c = "user" -> UserReturn(s, t, "ok")
      [] c = "nest" -> LauncherEnd(s, t, "done", "ok")
      [] c = "dual" -> LauncherEnd(SetExit(s), t, "done", "ok")
      [] OTHER -> ShutTail(s, t)

\* ... from `Stop NANDA adapter` on: close the registry client session.
StopTail(s, t, c) ==
    AfterStop(IF cfg_registry THEN [s EXCEPT !.session = close(s.session)] ELSE s,
              t, c)

stop_async(s, t, c) ==
    IF stop_skipped(s.a_running)
    THEN AfterStop(s, t, c)
    ELSE LET s1 == [s EXCEPT !.a_running = FALSE, !.n_stops = s.n_stops + 1] IN
         IF cfg_registry /\ s1.registered
         THEN SendRequest([s1 EXCEPT !.n_dereg = s1.n_dereg + 1], t, "deregister", c)
         ELSE StopTail(s1, t, c)

\* ---- stop (adapter.py:364-417) inside a running event loop: deregister()
\* and close() are handed to new tasks.
stop(s, t) ==
    IF stop_skipped(s.a_running)
    THEN UserReturn(s, t, "ok")
    ELSE LET n == s.n_stops + 1
             s1 == [s EXCEPT !.a_running = FALSE, !.n_stops = n]
         IN UserReturn(
              IF cfg_registry
              THEN CreateTask(CreateTask(s1, <<"dereg", n>>, "new"),
                              <<"close", n>>, "new")
              ELSE s1,
              t, "ok")

\* ---- the launcher after `await self.nest_adapter.start_async(register=True)`
\* start_nest (launcher.py:145-164)
NestAfterStart(s, t, result) ==
    IF result # "ok"
    THEN LauncherEnd(s, t, "raised", result)
    ELSE IF s.shutdown_event
         THEN stop_async(s, t, "nest")
         ELSE [s EXCEPT !.pc[t] = "L_nest_wait", !.rq[t] = NoRequest,
                        !.ctx[t] = "none"]

\* start_dual (launcher.py:218-236): the serve() task and the event task are
\* created and asyncio.wait suspends.
DualAfterStart(s, t, result) ==
    IF result # "ok"
    THEN LauncherEnd(s, t, "raised", result)
    ELSE [s EXCEPT !.srv[1] = "serving", !.evwait = "waiting",
                   !.pc[t] = "L_wait", !.rq[t] = NoRequest, !.ctx[t] = "none"]

AfterStart(s, t, c, result) ==
    CASE c = "user" -> UserReturn(s, t, result)
      [] c = "nest" -> NestAfterStart(s, t, result)
      [] OTHER -> DualAfterStart(s, t, result)

\* asyncio.create_task(self._start_heartbeat())
SpawnHb(s) ==
    CreateTask([s EXCEPT !.n_hb = s.n_hb + 1], <<"hb", s.n_hb + 1>>, "hb_new")

\* ---- start_async (adapter.py:301-362), called by task t in context c
start_async(s, t, register, c) ==
    IF start_refused(s.a_running)
    THEN AfterStart(s, t, c, "RuntimeError")
    ELSE IF ~a2a_ok
    THEN AfterStart([s EXCEPT !.a_running = FALSE], t, c, "ImportError")
    ELSE LET s1 == [s EXCEPT !.a_running = TRUE, !.n_starts = s.n_starts + 1] IN
         IF register /\ cfg_registry
         THEN SendRequest([s1 EXCEPT !.n_reg = s1.n_reg + 1], t, "register", c)
         ELSE AfterStart(s1, t, c, "ok")

\* ---- start (adapter.py:228-299) inside a running event loop: registration
\* and heartbeat are handed to new tasks.
start(s, t, register) ==
    IF start_refused(s.a_running)
    THEN UserReturn(s, t, "RuntimeError")
    ELSE IF ~a2a_ok
    THEN UserReturn([s EXCEPT !.a_running = FALSE], t, "ImportError")
    ELSE LET n == s.n_starts + 1
             s1 == [s EXCEPT !.a_running = TRUE, !.n_starts = n]
         IN UserReturn(
              IF register /\ cfg_registry
              THEN SpawnHb(CreateTask(s1, <<"reg", n>>, "new"))
              ELSE s1,
              t, "ok")

\* ---- _start_heartbeat after update_status has returned ret (or the try
\* block has raised): the failure is logged and `await asyncio.sleep(30)`
\* follows in every case.  (heartbeat_ends_on_failure is the variant in which
\* a failed heartbeat leaves the loop.)
heartbeat_ends_on_failure(s, t, ret) ==
    IF ret = "False"
    THEN [s EXCEPT !.pc[t] = "dead", !.rq[t] = NoRequest, !.ctx[t] = "none",
                   !.last_hb = ret]
    ELSE Suspend([s EXCEPT !.last_hb = ret], t, "hb_sleep")

heartbeat_sleep(s, t, ret) == Suspend([s EXCEPT !.last_hb = ret], t, "hb_sleep")

\* ---- a registry request of task t returned resp: the public method
\* finishes and its caller goes on.
Returned(s, t, resp) ==
    LET op == s.rq[t].op
        c == s.ctx[t]
        f == Finish(op, resp, s.registered)
        s1 == [s EXCEPT !.registered = f.registered]
    IN CASE c = "bg" ->
              [s1 EXCEPT !.pc[t] = "dead", !.rq[t] = NoRequest, !.ctx[t] = "none",
                         !.last_reg = IF op = "register" THEN f.ret ELSE @]
         [] c = "hb" -> heartbeat_sleep(s1, t, f.ret)
         [] op = "register" ->
              AfterStart(SpawnHb([s1 EXCEPT !.last_reg = f.ret]), t, c, "ok")
         [] OTHER -> StopTail(s1, t, c)

\* ---- get_health_status (bridge.py:658-694): the registry fields
get_health_status ==
    [registry_configured |-> cfg_registry,
     registry_connected |-> IF cfg_registry THEN bridge_registered ELSE "absent"]

\* ---- get_status (adapter.py:471-511): the fields the properties read
get_status(s) ==
    [status |-> IF s.a_running THEN "running" ELSE "stopped",
     bridge_health |-> get_health_status,
     registry |-> [configured |-> cfg_registry,
                   registered |-> IF cfg_registry THEN s.registered ELSE FALSE],
     agent_config |-> get_agent_config_for_communication(config)]

\* ---- AgentLauncher.start_standalone (launcher.py:64-114) up to
\* `await self.fastapi_server.serve()`; n is the Server object it creates.
start_standalone(s, t, n) ==
    IF launcher_refused(s.l_running)
    THEN [s EXCEPT !.pc[t] = "rejected", !.l_res[t] = "RuntimeError"]
    ELSE [s EXCEPT !.l_running = TRUE, !.fastapi_server = n,
                   !.srv[n] = "serving", !.pc[t] = "L_serve"]

\* ---- AgentLauncher.start_nest (launcher.py:116-164)
start_nest(s, t) ==
    IF launcher_refused(s.l_running) \/ ~cfg_nest_ok
    THEN [s EXCEPT !.pc[t] = "rejected", !.l_res[t] = "RuntimeError"]
    ELSE start_async([s EXCEPT !.l_running = TRUE, !.nest_adapter = TRUE],
                     t, TRUE, "nest")

\* ---- AgentLauncher.start_dual (launcher.py:166-264)
start_dual(s, t) ==
    IF launcher_refused(s.l_running) \/ ~cfg_nest_ok
    THEN [s EXCEPT !.pc[t] = "rejected", !.l_res[t] = "RuntimeError"]
    ELSE start_async([s EXCEPT !.l_running = TRUE, !.fastapi_server = 1,
                               !.nest_adapter = TRUE],
                     t, TRUE, "dual")

\* ---- AgentLauncher.shutdown (launcher.py:266-289) after `asyncio.sleep(1)`
shutdown_after_sleep(s, t) ==
    IF s.nest_adapter /\ s.a_running
    THEN stop_async(s, t, "shut")
    ELSE ShutTail(s, t)

\* ---- start_dual when asyncio.wait has returned (launcher.py:238-246):
\* the task that is still pending is cancelled and awaited.
Pending(x) == x = "serving" \/ x = "waiting"

dual_after_wait(s, t) ==
    IF Pending(s.srv[1]) \/ Pending(s.evwait)
    THEN [s EXCEPT !.srv[1] = IF Pending(@) THEN "cancelling" ELSE @,
                   !.evwait = IF Pending(@) THEN "cancelling" ELSE @,
                   !.pc[t] = "L_cancel"]
    ELSE stop_async(s, t, "dual")

(***************************************************************************)
(* Actions.  What the registry answers to a request is an input.           *)
(***************************************************************************)
LifeOutcomes ==
    { [kind |-> "status", status |-> 200, body |-> "dict_plain"],
      [kind |-> "status", status |-> 200, body |-> "empty_dict"],
      [kind |-> "status", status |-> 404, body |-> "null"],
      [kind |-> "status", status |-> 500, body |-> "null"],
      [kind |-> "TimeoutError", status |-> 0, body |-> "null"] }

\* The response to the request of task t arrives.  A retry sleeps the backoff
\* delay and sends the request again (the sleep is not a separate step here).
LifeRespond(t, o) ==
    /\ pc[t] = "http"
    /\ Due(S, t)
    /\ LET r == make_request(o, rq[t].rc, max_retries) IN
       IF r.do = "retry"
       THEN Set([S EXCEPT !.rq[t].rc = @ + 1, !.session = get_session(@)])
       ELSE Set(Returned(S, t, r.value))

\* The first task of the ready queue is taken off it to run.
Next_ready(s) ==
    [s EXCEPT !.ready = Tail(@),
              !.rq = [u \in Tasks |-> [s.rq[u] EXCEPT !.after = @ \ {Head(s.ready)}]]]

IsNext(t) == ready # <<>> /\ Head(ready) = t

\* _start_heartbeat: the `while self._is_running` test ...
heartbeat_test(s, t) ==
    IF s.a_running
    THEN Suspend([s EXCEPT !.last_hb = "none"], t, "hb_health")
    ELSE [s EXCEPT !.pc[t] = "dead", !.rq[t] = NoRequest, !.last_hb = "none"]

\* ... on the first run of the task
HbStart(t) ==
    /\ IsNext(t)
    /\ Set(heartbeat_test(Next_ready(S), t))

\* ... and when `asyncio.sleep(30)` ends.
HbWake(t) ==
    /\ pc[t] = "hb_sleep"
    /\ Due(S, t)
    /\ Set(heartbeat_test(S, t))

\* bridge.get_health_status() returns and update_status is called.
HbHealth(t) ==
    /\ pc[t] = "hb_health"
    /\ Due(S, t)
    /\ Set(SendRequest(S, t, "update_status", "hb"))

\* The task start() made for _register_with_registry() runs.
RegTaskRun(t) ==
    /\ IsNext(t)
    /\ Set(SendRequest([Next_ready(S) EXCEPT !.n_reg = @ + 1], t, "register", "bg"))

\* The task stop() made for registry_client.deregister() runs.
DeregTaskRun(t) ==
    /\ IsNext(t)
    /\ LET s == Next_ready(S) IN
       Set(IF s.registered
           THEN SendRequest([s EXCEPT !.n_dereg = @ + 1], t, "deregister", "bg")
           ELSE [s EXCEPT !.pc[t] = "dead"])

\* The task stop() made for registry_client.close() runs.
CloseTaskRun(t) ==
    /\ IsNext(t)
    /\ Set([Next_ready(S) EXCEPT !.session = close(@), !.pc[t] = "dead"])

\* ---- calls made directly on the adapter, one at a time
UserCall(name) ==
    [S EXCEPT !.u_calls = @ + 1, !.u_last = name, !.u_res = "pending"]

UserStart(register) ==
    /\ pc[User] = "idle"
    /\ u_calls < MaxUserCalls
    /\ n_starts < MaxStarts
    /\ Set(start([UserCall("start") EXCEPT !.u_register = register], User, register))

UserStartAsync(register) ==
    /\ pc[User] = "idle"
    /\ u_calls < MaxUserCalls
    /\ n_starts < MaxStarts
    /\ Set(start_async([UserCall("start_async") EXCEPT !.u_register = register],
                        User, register, "user"))

UserStop ==
    /\ pc[User] = "idle"
    /\ u_calls < MaxUserCalls
    /\ Set(stop(UserCall("stop"), User))

UserStopAsync ==
    /\ pc[User] = "idle"
    /\ u_calls < MaxUserCalls
    /\ Set(stop_async(UserCall("stop_async"), User, "user"))

(***************************************************************************)
(* SpecAdapter: one StockAgentNEST whose start and stop methods are called *)
(* directly, inside a running event loop.                                  *)
(***************************************************************************)
InitAdapter ==
    /\ registered = FALSE
    /\ session = "none"
    /\ max_retries = DefaultMaxRetries
    /\ retry_delay = DefaultRetryDelay
    /\ InitCall
    /\ cfg_registry \in BOOLEAN
    /\ InitNest({EnabledConfig})
    /\ a2a_ok \in BOOLEAN
    /\ InitTasks
    /\ InitBridgeIdle

NextAdapter ==
    \/ \E register \in BOOLEAN : UserStart(register)
    \/ \E register \in BOOLEAN : UserStartAsync(register)
    \/ UserStop
    \/ UserStopAsync
    \/ \E t \in {User} \cup HbTasks \cup RegTasks \cup DeregTasks :
          \E o \in LifeOutcomes : LifeRespond(t, o)
    \/ \E t \in HbTasks : HbStart(t)
    \/ \E t \in HbTasks : HbWake(t)
    \/ \E t \in HbTasks : HbHealth(t)
    \/ \E t \in RegTasks : RegTaskRun(t)
    \/ \E t \in DeregTasks : DeregTaskRun(t)
    \/ \E t \in CloseTasks : CloseTaskRun(t)

SpecAdapter == InitAdapter /\ [][NextAdapter]_vars

(***************************************************************************)
(* SpecHeartbeat: an adapter with a registry, started and stopped with     *)
(* start_async / stop_async, under the scheduling the event loop gives: a  *)
(* task that is ready to run is run, a timer fires, the health probe       *)
(* returns and every HTTP request is answered or times out.                *)
(***************************************************************************)
InitHeartbeat ==
    /\ InitAdapter
    /\ cfg_registry
    /\ a2a_ok

\* The steps of one heartbeat loop.
HbStep(t) ==
    \/ HbStart(t)
    \/ HbWake(t)
    \/ HbHealth(t)
    \/ \E o \in LifeOutcomes : LifeRespond(t, o)

NextHeartbeat ==
    \/ UserStartAsync(TRUE)
    \/ UserStopAsync
    \/ \E o \in LifeOutcomes : LifeRespond(User, o)
    \/ \E t \in HbTasks : HbStep(t)

FairHeartbeat == \A t \in HbTasks : WF_vars(HbStep(t))

SpecHeartbeat == InitHeartbeat /\ [][NextHeartbeat]_vars /\ FairHeartbeat

(***************************************************************************)
(* SpecLife: one AgentLauncher.  Its start method is called once, in one   *)
(* of the three modes; signals arrive, shutdown() is called, the server    *)
(* ends, and stop / stop_async are called on the adapter it created.       *)
(***************************************************************************)
Modes == {"standalone", "nest", "dual"}

\* The Server object each caller of start_standalone creates.
ServerOf(t) == IF t = Main THEN 1 ELSE 2

Launch(m) ==
    /\ pc[Main] = "idle"
    /\ mode = "none"
    /\ LET s == [S EXCEPT !.mode = m] IN
       Set(CASE m = "standalone" -> start_standalone(s, Main, ServerOf(Main))
             [] m = "nest" -> start_nest(s, Main)
             [] OTHER -> start_dual(s, Main))

\* signal_handler (launcher.py:56-58)
Signal ==
    /\ ~shutdown_event
    /\ Set([S EXCEPT !.shutdown_event = TRUE])

\* shutdown() is called and runs to `await asyncio.sleep(1)`.
ShutdownCall(t) ==
    /\ pc[t] = "idle"
    /\ \A u \in ShutTasks : u[2] < t[2] => pc[u] # "idle"
    /\ Set(Suspend([S EXCEPT !.shutdown_event = TRUE], t, "S_sleep"))

ShutdownWake(t) ==
    /\ pc[t] = "S_sleep"
    /\ Due(S, t)
    /\ Set(shutdown_after_sleep(S, t))

\* serve() of Server n ends, because should_exit was seen or on its own.  In
\* standalone mode the start_standalone call that awaits it ends with it.
ServeEnds(n) ==
    /\ srv[n] = "serving"
    /\ LET s == [S EXCEPT !.srv[n] = "ended"] IN
       IF \E t \in {Main, Second} : pc[t] = "L_serve" /\ ServerOf(t) = n
       THEN Set(LauncherEnd(s, CHOOSE t \in {Main, Second} :
                                   pc[t] = "L_serve" /\ ServerOf(t) = n,
                            "done", "ok"))
       ELSE Set(s)

\* The task wrapping _shutdown_event.wait() finishes once the event is set.
EventWaitDone ==
    /\ evwait = "waiting"
    /\ shutdown_event
    /\ Set([S EXCEPT !.evwait = "done"])

\* asyncio.wait(..., FIRST_COMPLETED) returns in start_dual.
DualWake ==
    /\ pc[Main] = "L_wait"
    /\ srv[1] = "ended" \/ evwait = "done"
    /\ Set(dual_after_wait(S, Main))

\* A cancelled task runs and ends with CancelledError.
CancelledTaskEnds ==
    /\ srv[1] = "cancelling" \/ evwait = "cancelling"
    /\ Set([S EXCEPT !.srv[1] = IF @ = "cancelling" THEN "cancelled" ELSE @,
                     !.evwait = IF @ = "cancelling" THEN "cancelled" ELSE @])

\* `await task` of the cancelled task returns in start_dual.
DualResume ==
    /\ pc[Main] = "L_cancel"
    /\ srv[1] # "cancelling" /\ evwait # "cancelling"
    /\ Set(stop_async(S, Main, "dual"))

\* `await self._shutdown_event.wait()` returns in start_nest.
NestWake ==
    /\ pc[Main] = "L_nest_wait"
    /\ shutdown_event
    /\ Set(stop_async(S, Main, "nest"))

InitLife ==
    /\ registered = FALSE
    /\ session = "none"
    /\ max_retries = DefaultMaxRetries
    /\ retry_delay = DefaultRetryDelay
    /\ InitCall
    /\ cfg_registry \in BOOLEAN
    /\ InitNest({DefaultConfig, EnabledConfig})
    /\ a2a_ok \in BOOLEAN
    /\ InitTasks
    /\ InitBridgeIdle

\* stop / stop_async called on the adapter the launcher created.
AdapterStop == nest_adapter /\ UserStop

AdapterStopAsync == nest_adapter /\ UserStopAsync

LifeCallers == {Main, User} \cup ShutTasks \cup HbTasks \cup DeregTasks

NextLife ==
    \/ \E m \in Modes : Launch(m)
    \/ Signal
    \/ \E t \in ShutTasks : ShutdownCall(t)
    \/ \E t \in ShutTasks : ShutdownWake(t)
    \/ \E n \in 1..2 : ServeEnds(n)
    \/ EventWaitDone
    \/ DualWake
    \/ CancelledTaskEnds
    \/ DualResume
    \/ NestWake
    \/ AdapterStop
    \/ AdapterStopAsync
    \/ \E t \in LifeCallers : \E o \in LifeOutcomes : LifeRespond(t, o)
    \/ \E t \in HbTasks : HbStart(t)
    \/ \E t \in HbTasks : HbWake(t)
    \/ \E t \in HbTasks : HbHealth(t)
    \/ \E t \in DeregTasks : DeregTaskRun(t)
    \/ \E t \in CloseTasks : CloseTaskRun(t)

SpecLife == InitLife /\ [][NextLife]_vars

\* ---- SpecLife2: a second caller calls start_standalone on the same launcher.
SecondStart ==
    /\ pc[Second] = "idle"
    /\ Set(start_standalone(S, Second, ServerOf(Second)))

NextLife2 ==
    \/ NextLife
    \/ SecondStart

SpecLife2 == InitLife /\ [][NextLife2]_vars

\* ---- SpecCancel: the task that runs start_nest / start_dual may be cancelled.
\* CancelledError is raised at the await the call is suspended in: the
\* registry request of start_async or stop_async, `_shutdown_event.wait()`
\* or asyncio.wait.  It is no Exception, so no `except Exception` clause of
\* the adapter or the launcher runs; `finally: self._running = False` does.
\* (At `await task` of start_dual the loop's `except asyncio.CancelledError`
\* catches it, launcher.py:242-246, and the call goes on as in DualResume.)
cancelled(s, t) == LauncherEnd(s, t, "cancelled", "CancelledError")

CancelStart ==
    /\ pc[Main] \in {"http", "L_nest_wait", "L_wait"}
    /\ Set(cancelled(S, Main))

NextCancel ==
    \/ NextLife
    \/ CancelStart

SpecCancel == InitLife /\ [][NextCancel]_vars

(***************************************************************************)
(* SpecDual: the launcher in dual mode, with signals, shutdown() calls and *)
(* stop_async calls on its adapter, under the scheduling the event loop    *)
(* gives: a task that is ready to run is run, and every HTTP request is    *)
(* answered or times out (ClientTimeout, registry.py:61).                  *)
(***************************************************************************)
DualCallers == {Main, User} \cup ShutTasks \cup HbTasks

\* The steps of the start_dual call itself.
MainStep ==
    \/ \E o \in LifeOutcomes : LifeRespond(Main, o)
    \/ DualWake
    \/ DualResume

\* The steps of the two tasks start_dual waits for.
WaitedTaskStep ==
    \/ EventWaitDone
    \/ CancelledTaskEnds

NextDual ==
    \/ Launch("dual")
    \/ Signal
    \/ \E t \in ShutTasks : ShutdownCall(t)
    \/ \E t \in ShutTasks : ShutdownWake(t)
    \/ ServeEnds(1)
    \/ MainStep
    \/ WaitedTaskStep
    \/ \E t \in HbTasks : HbStart(t)
    \/ AdapterStopAsync
    \/ \E t \in DualCallers \ {Main} : \E o \in LifeOutcomes : LifeRespond(t, o)
    \/ \E t \in HbTasks : HbWake(t)
    \/ \E t \in HbTasks : HbHealth(t)

FairDual ==
    /\ WF_vars(MainStep)
    /\ WF_vars(WaitedTaskStep)
    /\ WF_vars(\E t \in HbTasks : HbStart(t))

SpecDual == InitLife /\ [][NextDual]_vars /\ FairDual

(***************************************************************************)
(* Properties of the adapter and the launcher.                             *)
(***************************************************************************)
\* What a call on the adapter may change besides its own return.
AdapterView ==
    <<a_running, registered, session, n_starts, n_stops, n_reg, n_dereg, n_hb,
      [t \in Spawned |-> pc[t]], [t \in Spawned |-> rq[t]]>>

Alive(t) == pc[t] \notin {"unborn", "dead"}

\* The register_agent call of task t returns False in this step.
RegistrationFails(t) ==
    /\ pc[t] = "http"
    /\ rq[t].op = "register"
    /\ pc'[t] # "http"
    /\ last_reg' = "False"

StartCalled == u_calls' = u_calls + 1 /\ u_last' \in {"start", "start_async"}
StopCalled == u_calls' = u_calls + 1 /\ u_last' \in {"stop", "stop_async"}

C7_HeartbeatEndedAfterStop ==
    /\ (u_last \in {"stop", "stop_async"} /\ u_res = "ok" /\ ~a_running)
           => \A h \in HbTasks : ~Alive(h)
    /\ (mode = "dual" /\ pc[Main] = "done")
           => \A h \in HbTasks : ~Alive(h)

\* C8: the stop sequence of the adapter runs at most once per successful
\* start, and so does the deregistration request, whatever shutdown triggers
\* and stop calls occur; a stop or stop_async call on an adapter that is not
\* running returns without a registry request and without a state change.
C8_ShutdownIdempotent ==
    /\ [](n_stops <= n_starts /\ n_dereg <= n_stops)
    /\ [][ (StopCalled /\ ~a_running) =>
               (u_res' = "ok" /\ AdapterView' = AdapterView) ]_vars

C8_Witness ==
    /\ mode = "dual"
    /\ pc[Main] = "done"
    /\ shutdown_event
    /\ srv[1] = "ended"
    /\ \A t \in ShutTasks : pc[t] = "done"
    /\ u_calls >= 2
    /\ u_res = "ok"
    /\ n_stops = 1
    /\ n_dereg = 1

\* C10: a start or start_async call on an adapter that is already running
\* raises RuntimeError and changes nothing: the adapter stays running, no
\* registration call is made and no heartbeat loop is launched.
C10_StartOnRunningFails ==
    [][ (StartCalled /\ a_running) =>
            (u_res' = "RuntimeError" /\ a_running' /\ AdapterView' = AdapterView) ]_vars

C10_Witness ==
    /\ u_res = "RuntimeError"
    /\ u_last \in {"start", "start_async"}
    /\ a_running
    /\ n_starts = 1
    /\ n_reg = 1
    /\ n_hb = 1

\* The start_dual call has ended the way C6 describes.
DualEnded ==
    /\ pc[Main] = "done"
    /\ l_res[Main] = "ok"
    /\ srv[1] \in {"ended", "cancelled"}
    /\ evwait \in {"done", "cancelled"}
    /\ ~a_running
    /\ n_stops = 1
    /\ should_exit[1]
    /\ ~l_running

\* start_dual is suspended in asyncio.wait and one of the two events happened.
DualRaceDecided ==
    /\ mode = "dual"
    /\ pc[Main] = "L_wait"
    /\ srv[1] = "ended" \/ shutdown_event

\* C6: in dual mode, when start_dual has returned, the task that lost the
\* race between the server task ending and the shutdown signal was cancelled
\* (none is left pending), the adapter was stopped (running flag false, stop
\* sequence with its deregister() call run once), the server's should_exit
\* is set and is_running() is false; and once either event has happened
\* while start_dual waits, that end is eventually reached.
C6_DualShutdown ==
    /\ []((mode = "dual" /\ pc[Main] = "done") => DualEnded)
    /\ (DualRaceDecided ~> (mode = "dual" /\ DualEnded))

C6_Witness ==
    /\ mode = "dual"
    /\ DualEnded
    /\ srv[1] = "cancelled"
    /\ evwait = "done"
    /\ n_dereg = 1
    /\ \A t \in ShutTasks : pc[t] = "idle"

\* A start_* call that was accepted and has not returned or raised.
InFlight(t) == pc[t] \notin {"idle", "done", "raised", "rejected"}

\* C9 (as stated): the launcher never has two start operations in flight:
\* while one accepted start_* call has not yet returned or raised, no other
\* start_* call is accepted, whatever shutdown() calls and signals occur.
C9_OneStartAtATime == ~(InFlight(Main) /\ InFlight(Second))

\* Registration calls made or handed to a task that has not made its call yet.
RegCalls == n_reg + Cardinality({r \in RegTasks : pc[r] = "new"})

\* A start / start_async call is made in this step and gets past its guard
\* and the import.
StartAccepted == StartCalled /\ ~a_running /\ a2a_ok

\* A heartbeat loop has a status update on its way to the registry.
UpdateSent == \E h \in HbTasks : pc[h] = "http"

\* C11: an accepted start with register = true and a registry makes one
\* registration call, and nothing else ever makes one; the heartbeat loop of
\* the first start sends no status update before that registration call has
\* completed; an accepted start with register = false or without a registry
\* makes no registration call and creates no heartbeat loop.
C11_RegisterThenHeartbeat ==
    /\ [][ /\ StartAccepted =>
               IF u_register' /\ cfg_registry
               THEN RegCalls' = RegCalls + 1
               ELSE /\ RegCalls' = RegCalls
                    /\ n_hb' = n_hb
                    /\ \A t \in Spawned : pc'[t] = pc[t]
           /\ RegCalls' # RegCalls => StartAccepted ]_vars
    /\ [](n_starts = 1 =>
            /\ RegCalls <= 1
            /\ UpdateSent => (n_reg = 1 /\ last_reg # "none"))

\* C12: a heartbeat never ends the loop, whatever update_status returned: the
\* loop goes to its 30 s sleep; when the sleep ends while the adapter is
\* running, the next heartbeat is attempted; and from any point after which
\* the adapter stays running, every heartbeat loop alive at that point sends
\* status updates again and again.
C12_HeartbeatGoesOn ==
    /\ [][ \A h \in HbTasks :
             /\ (pc[h] = "http" /\ pc'[h] # "http") => pc'[h] = "hb_sleep"
             /\ (pc[h] = "hb_sleep" /\ pc'[h] # "hb_sleep" /\ a_running)
                    => pc'[h] = "hb_health" ]_vars
    /\ \A h \in HbTasks :
          []((Alive(h) /\ []a_running) => []<>(pc[h] = "http"))

\* After a heartbeat that failed, the loop of a running adapter is in its
\* sleep.
C12_Witness ==
    /\ a_running
    /\ n_hb = 1
    /\ last_hb = "False"
    /\ pc[<<"hb", 1>>] = "hb_sleep"

(***************************************************************************)
(* Query text.  A query is a sequence of lexemes: a lexeme is one          *)
(* character that is not a word character ("@", "$", "-", "?", "'", a      *)
(* space, a newline) or a maximal run of word characters (a word).  The    *)
(* words known to the model are listed by shape, which is all the regular  *)
(* expressions of the source look at; keywords are in lower case.          *)
(***************************************************************************)
MaxQueryLen == 4

Upper1to5 == {"AAPL", "TSLA", "THE", "I"}        \* [A-Z]{1,5}
Lower1to5 == {"aapl", "the", "is", "about", "s", "me", "at", "on", "info",
              "what", "how", "look", "tell", "give", "show", "check"}   \* [a-z]{1,5}
LongWords == {"analyze", "review", "advisor", "GOOGLE"}   \* more than 5 letters

\* U+212A KELVIN SIGN, written "#" here: a letter outside ASCII that `[A-Z]`
\* matches under re.IGNORECASE (its lower case is "k") and only then, and
\* that str.upper() leaves as it is.
KelvinSign == "#"
Folded1to5 == {KelvinSign}                       \* [A-Z]{1,5} under re.IGNORECASE only
Words == Upper1to5 \cup Lower1to5 \cup LongWords \cup Folded1to5

Spaces == {" ", "\n"}                            \* \s
IdChars == Words \cup {"-"}                      \* [\w-]
IsSpace(c) == c \in Spaces

\* Strings are sequences of characters.  str.upper() of the ASCII letters:
ToUpper ==
    [a |-> "A", b |-> "B", c |-> "C", d |-> "D", e |-> "E", f |-> "F",
     g |-> "G", h |-> "H", i |-> "I", j |-> "J", k |-> "K", l |-> "L",
     m |-> "M", n |-> "N", o |-> "O", p |-> "P", q |-> "Q", r |-> "R",
     s |-> "S", t |-> "T", u |-> "U", v |-> "V", w |-> "W", x |-> "X",
     y |-> "Y", z |-> "Z"]

AsciiLower == DOMAIN ToUpper
AsciiUpper == {ToUpper[c] : c \in AsciiLower}
Digits == {"0", "1", "2", "3", "4", "5", "6", "7", "8", "9"}
Whitespace == {" ", "\n", "\t"}

\* str.upper()
RECURSIVE upper(_)
upper(w) ==
    IF w = "" THEN ""
    ELSE (IF Head(w) \in AsciiLower THEN ToUpper[Head(w)] ELSE Head(w)) \o upper(Tail(w))

\* str.strip() of a string
RECURSIVE str_strip(_)
str_strip(w) ==
    IF w = "" THEN ""
    ELSE IF Head(w) \in Whitespace THEN str_strip(Tail(w))
    ELSE IF SubSeq(w, Len(w), Len(w)) \in Whitespace
    THEN str_strip(SubSeq(w, 1, Len(w) - 1))
    ELSE w

\* str.replace(c, "")
RECURSIVE str_remove(_, _)
str_remove(w, c) ==
    IF w = "" THEN ""
    ELSE (IF Head(w) = c THEN "" ELSE Head(w)) \o str_remove(Tail(w), c)

\* str.isdigit()
isdigit(w) == w # "" /\ \A i \in 1..Len(w) : SubSeq(w, i, i) \in Digits

\* str.strip()
RECURSIVE lstrip(_)
lstrip(q) == IF q # <<>> /\ IsSpace(Head(q)) THEN lstrip(Tail(q)) ELSE q

RECURSIVE rstrip(_)
rstrip(q) ==
    IF q # <<>> /\ IsSpace(q[Len(q)]) THEN rstrip(SubSeq(q, 1, Len(q) - 1)) ELSE q

strip(q) == rstrip(lstrip(q))

\* The first position from i on that does not hold a lexeme of the class.
RECURSIVE SkipWhile(_, _, _)
SkipWhile(q, i, class) ==
    IF i <= Len(q) /\ q[i] \in class THEN SkipWhile(q, i + 1, class) ELSE i

\* ---- parse_agent_mention (bridge.py:394-425):
\* re.match(r'^@([\w-]+)\s+(.+)$', message.strip())
NoMention(q) == [target |-> <<>>, remaining |-> q]

parse_agent_mention(q) ==
    LET m == strip(q)
        idEnd == SkipWhile(m, 2, IdChars)         \* first lexeme after the id
        rest == SkipWhile(m, idEnd, Spaces)       \* first lexeme after the \s+
    IN IF /\ m # <<>>
          /\ m[1] = "@"
          /\ idEnd > 2
          /\ rest > idEnd
          /\ rest <= Len(m)
          /\ \A i \in rest..Len(m) : m[i] # "\n"
       THEN [target |-> SubSeq(m, 2, idEnd - 1),
             remaining |-> SubSeq(m, rest, Len(m))]
       ELSE NoMention(q)

\* ---- is_valid_ticker (query_parser.py:112-163)
\* re.match(r'^[A-Z][A-Z0-9.]{0,4}$', ticker)
ticker_pattern(t) ==
    /\ Len(t) \in 1..5
    /\ Head(t) \in AsciiUpper
    /\ \A i \in 2..Len(t) : SubSeq(t, i, i) \in AsciiUpper \cup Digits \cup {"."}

is_valid_ticker(ticker) ==
    LET t == upper(str_strip(ticker)) IN
    /\ ticker # ""
    /\ Len(t) >= 1
    /\ Len(t) <= 5
    /\ ticker_pattern(t)
    /\ ~isdigit(str_remove(t, "."))

\* ---- extract_ticker_from_query (query_parser.py:15-109)
\* `\s+\$?([A-Z]{1,5})\b` from position i: the captured word, or "None".
ticker_after(q, i, letters) ==
    LET j == SkipWhile(q, i, Spaces)
        n == IF j <= Len(q) /\ q[j] = "$" THEN j + 1 ELSE j
    IN IF j > i /\ n <= Len(q) /\ q[n] \in letters THEN q[n] ELSE "None"

\* The position after the phrase key matched from position i, or 0: a " "
\* of the phrase stands for \s+, or for \s+ taken by the next group.
RECURSIVE KeyEnd(_, _, _, _)
KeyEnd(q, i, key, k) ==
    IF k > Len(key) THEN i
    ELSE IF i > Len(q) THEN 0
    ELSE IF key[k] = " "
    THEN IF q[i] \in Spaces THEN KeyEnd(q, SkipWhile(q, i, Spaces), key, k + 1) ELSE 0
    ELSE IF q[i] = key[k] THEN KeyEnd(q, i + 1, key, k + 1) ELSE 0

\* re.search of `(?:key1|key2|...)\s+\$?([A-Z]{1,5})\b` with re.IGNORECASE:
\* the leftmost position, and there the first alternative, that matches.
search(q, keys) ==
    LET letters == Upper1to5 \cup Lower1to5 \cup Folded1to5
        hit(i, a) == /\ KeyEnd(q, i, keys[a], 1) # 0
                     /\ ticker_after(q, KeyEnd(q, i, keys[a], 1), letters) # "None"
        hits == {h \in (1..Len(q)) \X DOMAIN keys : hit(h[1], h[2])}
    IN IF hits = {}
       THEN "None"
       ELSE LET h == CHOOSE h \in hits : \A g \in hits :
                         h[1] < g[1] \/ (h[1] = g[1] /\ h[2] <= g[2])
            IN upper(ticker_after(q, KeyEnd(q, h[1], keys[h[2]], 1), letters))

\* Pattern 1: re.match(r'^\$?([A-Z]{1,5})$', query)
direct_pattern(q) ==
    LET body == IF q # <<>> /\ q[Len(q)] = "\n" THEN SubSeq(q, 1, Len(q) - 1) ELSE q
        word == IF body # <<>> /\ Head(body) = "$" THEN Tail(body) ELSE body
    IN IF Len(word) = 1 /\ word[1] \in Upper1to5 THEN word[1] ELSE "None"

\* Pattern 2: (?:analyze|check|look\s+at|review)
analyze_pattern ==
    << <<"analyze">>, <<"check">>, <<"look", " ", "at">>, <<"review">> >>

\* Pattern 3: (?:what|how)(?:\s+is|\s+about|'s)?
question_pattern ==
    << <<"what", " ", "is">>, <<"what", " ", "about">>, <<"what", "'", "s">>,
       <<"what">>,
       <<"how", " ", "is">>, <<"how", " ", "about">>, <<"how", "'", "s">>,
       <<"how">> >>

\* Pattern 4: (?:tell\s+me\s+about|give\s+me\s+info\s+on|show\s+me|info\s+on)
info_pattern ==
    << <<"tell", " ", "me", " ", "about">>,
       <<"give", " ", "me", " ", "info", " ", "on">>,
       <<"show", " ", "me">>, <<"info", " ", "on">> >>

common_words ==
    {"I", "A", "AN", "THE", "IS", "ARE", "WAS", "WERE", "BE", "BEEN", "HAVE",
     "HAS", "HAD", "DO", "DOES", "DID", "WILL", "WOULD", "CAN", "COULD", "MAY",
     "MIGHT", "MUST", "SHALL", "SHOULD", "AM", "OR", "AND", "BUT", "IF", "SO",
     "AS", "AT", "BY", "FOR", "IN", "OF", "ON", "TO", "UP", "IT", "ME", "MY",
     "WE", "US", "YOU", "HE", "SHE", "HELLO", "HI", "THANKS", "THANK", "PLEASE",
     "YES", "NO", "OK", "OKAY"}

\* Pattern 5: re.findall(r'\b\$?([A-Z]{1,5})\b', query), first match that is
\* not a common word and is a valid ticker.
generic_pattern(q) ==
    LET ok == {i \in 1..Len(q) :
                 q[i] \in Upper1to5 /\ q[i] \notin common_words
                                    /\ is_valid_ticker(q[i])}
    IN IF ok = {} THEN "None"
       ELSE q[CHOOSE i \in ok : \A j \in ok : i <= j]

\* The rules in the order they are tried, on the stripped query.
pattern(k, q) ==
    CASE k = 1 -> direct_pattern(q)
      [] k = 2 -> search(q, analyze_pattern)
      [] k = 3 -> search(q, question_pattern)
      [] k = 4 -> search(q, info_pattern)
      [] OTHER -> generic_pattern(q)

fallback_only(k, q) == pattern(5, q)

RECURSIVE first_match(_, _)
first_match(k, q) ==
    IF k = 5 \/ pattern(k, q) # "None" THEN pattern(k, q) ELSE first_match(k + 1, q)

extract_ticker_from_query(text) == first_match(1, strip(text))

\* ---- parse_query_intent (query_parser.py:166-223)
parse_query_intent(q) ==
    LET ticker == extract_ticker_from_query(q) IN
    IF q = <<>>
    THEN [ticker |-> "None", intent |-> "analyze", valid |-> FALSE,
          error |-> "Invalid query input"]
    ELSE IF ticker = "None"
    THEN [ticker |-> "None", intent |-> "unknown", valid |-> FALSE,
          error |-> "No ticker symbol found in query"]
    ELSE IF ~is_valid_ticker(ticker)
    THEN [ticker |-> ticker, intent |-> "analyze", valid |-> FALSE,
          error |-> "Invalid ticker symbol"]
    ELSE [ticker |-> ticker, intent |-> "analyze", valid |-> TRUE,
          error |-> "None"]

(***************************************************************************)
(* StockAgentBridge.  A JSON value or message is described by what the     *)
(* code looks at: its type, its truth value, the keys (elements,           *)
(* substrings) the `in` tests find in it, the shape of its "content", its  *)
(* role and conversation id, and for an error response its error code.     *)
(* Its text (content.text, or the "message" of an error dict) is described *)
(* by what it is made of: "peer_text" the text a peer sent, "target" the   *)
(* mentioned agent id, "annotation" the forwarding note, "ticker",         *)
(* "summary" the analysis summary, "failure" the text of the exception,    *)
(* "analysis" the analysis template, "suggestions" the bulleted list.      *)
(***************************************************************************)
Value(kind, truthy, has, content, code) ==
    [kind |-> kind, truthy |-> truthy, has |-> has, content |-> content,
     role |-> IF "role" \in has /\ kind = "dict" THEN "agent" ELSE "none",
     cid |-> IF "conversation_id" \in has /\ kind = "dict" THEN "conv-peer" ELSE "none",
     code |-> code,
     text |-> IF kind = "dict" /\ content = "typed" THEN {"peer_text"} ELSE {}]

\* format_error_response / format_analysis_response
\* (message_formatter.py:13-148): role, content {text, type} and
\* conversation_id are always set.
Formatted(cid, code, text) ==
    [kind |-> "dict", truthy |-> TRUE,
     has |-> {"role", "content", "conversation_id"}, content |-> "typed",
     role |-> "agent", cid |-> cid, code |-> code, text |-> text]

\* The text is the error message, the code and the suggestions if any.
format_error_response(error_message, cid, code, suggestions) ==
    Formatted(cid, code, error_message \cup suggestions)

format_analysis_response(cid) == Formatted(cid, "none", {"analysis", "ticker", "summary"})

\* The call raised exc to its caller.
Raised(exc) ==
    [kind |-> "raised", truthy |-> FALSE, has |-> {}, content |-> "none",
     role |-> "none", cid |-> "none", code |-> exc, text |-> {}]

\* The {"error": ..., "message": ...} dicts send_to_agent returns
\* (bridge.py:469-641).
ErrorDict(error) ==
    [Value("dict", TRUE, {"error", "message"}, "none", error) EXCEPT
        !.text = IF error \in {"Agent not found", "Timeout", "Connection error"}
                 THEN {"target"} ELSE {}]

\* What `await response.json()` of a peer's 200 answer can be.
PeerKeys == {"error", "message", "content", "role", "conversation_id"}

PeerBodies ==
    {Value("dict", keys # {}, keys, "none", "none") :
        keys \in SUBSET (PeerKeys \ {"content"})}
    \cup {Value("dict", TRUE, keys \cup {"content"}, c, "none") :
        keys \in SUBSET (PeerKeys \ {"content"}), c \in {"typed", "untyped", "str"}}
    \cup {Value(k, has # {}, has, "none", "none") :
        k \in {"list", "str"}, has \in {{}, {"x"}, {"error"}, {"content"}}}
    \cup {Value("int", TRUE, {}, "none", "none"),
          Value("null", FALSE, {}, "none", "none")}

\* ---- parse_a2a_message (message_formatter.py:151-204) on the inbound
\* message env carrying query q; metadata.get raises if metadata is no dict.
parse_a2a_message(env, q) ==
    [query |-> IF env.content \in {"dict", "str"} THEN q ELSE <<>>,
     conversation_id |-> IF env.has_cid THEN "conv-1" ELSE "",
     raises |-> env.metadata = "str"]

\* ---- the forwarding note put before the peer's text (bridge.py:165-170)
annotate_nothing(r) == r

annotate(r) == [r EXCEPT !.text = {"annotation", "target"} \cup r.text]

\* ---- the error response for a failed forward (bridge.py:147-161)
forward_failed_bare(r, cid) ==
    format_error_response(r.text, cid, "AGENT_COMMUNICATION_ERROR", {})

forward_failed(r, cid) ==
    format_error_response(r.text, cid, "AGENT_COMMUNICATION_ERROR",
                          {"suggestions", "target"})

\* ---- process_stock_query after send_to_agent returned r
\* (bridge.py:145-178); none of it is inside a try block.
forwarded(r, cid) ==
    IF r.truthy /\ r.kind = "int"
    THEN Raised("TypeError")                     \* "error" in 5
    ELSE IF r.truthy /\ "error" \in r.has
    THEN IF r.kind = "dict"
         THEN IF "message" \in r.has
              THEN forward_failed(r, cid)
              ELSE Raised("KeyError")            \* response["message"]
         ELSE Raised("TypeError")                \* response["message"]
    ELSE IF r.truthy /\ "content" \in r.has
    THEN IF r.kind = "dict"
         THEN IF r.content \in {"typed", "untyped"}
              THEN annotate(r)
              ELSE Raised("AttributeError")      \* response["content"].get
         ELSE Raised("TypeError")                \* response["content"]
    ELSE IF r.truthy
    THEN r
    ELSE format_error_response({"target"}, cid, "NO_RESPONSE", {})

\* ---- send_to_agent after the POST was answered (bridge.py:531-641)
PeerOutcomes ==
    [kind : {"json"}, body : PeerBodies]
    \cup [kind : {"bad_json", "status", "TimeoutError", "ClientError"},
          body : {Value("null", FALSE, {}, "none", "none")}]

posted_unclassified(p) == p.body

posted(p) ==
    CASE p.kind = "json" -> p.body
      [] p.kind = "bad_json" -> ErrorDict("Internal error")
      [] p.kind = "status" -> ErrorDict("HTTP")
      [] p.kind = "TimeoutError" -> ErrorDict("Timeout")
      [] OTHER -> ErrorDict("Connection error")

\* ---- the arguments of perform_complete_analysis (bridge.py:211-214)
analysis_args_stripped(q, intent) == [ticker |-> intent.ticker, query_text |-> strip(q)]

analysis_args(q, intent) == [ticker |-> intent.ticker, query_text |-> q]

\* ---- process_stock_query after perform_complete_analysis (bridge.py:211-299)
AnalysisOutcomes == {"recommendation", "no_recommendation", "raises"}

analysed_always_formats(a, cid) == format_analysis_response(cid)

analysed(a, cid) ==
    CASE a = "recommendation" -> format_analysis_response(cid)
      [] a = "no_recommendation" ->
            format_error_response({"ticker", "summary"}, cid, "ANALYSIS_FAILED",
                                  {"suggestions"})
      [] OTHER ->
            format_error_response({"ticker", "failure"}, cid, "ANALYSIS_ERROR",
                                  {"suggestions"})

\* ---- the audit events: what log_nest_message is called with, as far as
\* its message_type, its status and whether processing_time_ms is passed.
AuditEvent(type, status, elapsed) ==
    [message_type |-> type, status |-> status, processing_time_ms |-> elapsed]

\* process_stock_query on entry (bridge.py:122-129)
incoming == AuditEvent("stock_query", "processing", FALSE)

\* send_to_agent before the POST (bridge.py:515-523)
sending == AuditEvent("agent_forward", "sending", FALSE)

\* send_to_agent after the POST (bridge.py:542-625); an answer that is no
\* JSON ends in the outer handler, which logs nothing (bridge.py:632-641).
posted_audit(p) ==
    CASE p.kind = "json" -> <<AuditEvent("agent_forward", "success", TRUE)>>
      [] p.kind = "bad_json" -> <<>>
      [] p.kind = "status" -> <<AuditEvent("agent_forward", "error", TRUE)>>
      [] p.kind = "TimeoutError" -> <<AuditEvent("agent_forward", "timeout", TRUE)>>
      [] OTHER -> <<AuditEvent("agent_forward", "error", TRUE)>>

\* process_stock_query after the analysis (bridge.py:216-282): the return
\* for a missing recommendation logs nothing.
analysed_audit(a) ==
    CASE a = "recommendation" -> <<AuditEvent("analysis_response", "success", TRUE)>>
      [] a = "no_recommendation" -> <<>>
      [] OTHER -> <<AuditEvent("analysis_response", "error", TRUE)>>

\* ---- handle_a2a_message (bridge.py:323-370) around process_stock_query:
\* what process_stock_query raises is turned into an error response.
handle_a2a_message(env, out) ==
    IF out.kind = "raised"
    THEN format_error_response({"failure"}, IF env.has_cid THEN "conv-1" ELSE "unknown",
                               "MESSAGE_PROCESSING_ERROR", {})
    ELSE out

returned(entry, env, out) ==
    IF entry = "handle_a2a_message" THEN handle_a2a_message(env, out) ELSE out

\* The arguments process_stock_query is called with.
Parsed == parse_a2a_message(b_env, b_query)

(***************************************************************************)
(* SpecBridge: one call of process_stock_query or handle_a2a_message, for  *)
(* every inbound message and every behaviour of the registry, the peer     *)
(* and the analysis service.                                               *)
(***************************************************************************)
QueryAlphabet == {"@", " ", "advisor", "AAPL", "analyze"}

RECURSIVE SeqsUpTo(_, _)
SeqsUpTo(A, n) ==
    IF n = 0 THEN {<<>>}
    ELSE LET shorter == SeqsUpTo(A, n - 1) IN
         shorter \cup {Append(q, c) : q \in {x \in shorter : Len(x) = n - 1}, c \in A}

\* Two words in a row would be one word.
Queries ==
    {q \in SeqsUpTo(QueryAlphabet, MaxQueryLen) :
        \A i \in 1..(Len(q) - 1) : ~(q[i] \in Words /\ q[i + 1] \in Words)}

Envelopes ==
    [content : {"dict", "str", "absent"}, has_cid : BOOLEAN,
     metadata : {"absent", "str"}]

\* process_stock_query called directly: (query, "conv-1").
DirectCall == [content |-> "str", has_cid |-> TRUE, metadata |-> "absent"]

InitBridge ==
    /\ registered = FALSE
    /\ session = "none"
    /\ max_retries = DefaultMaxRetries
    /\ retry_delay = DefaultRetryDelay
    /\ InitCall
    /\ cfg_registry \in BOOLEAN
    /\ InitNest({EnabledConfig})
    /\ a2a_ok = TRUE
    /\ InitTasks
    /\ InitParserIdle
    /\ InitSessions
    /\ b_pc = "called"
    /\ b_entry \in {"process_stock_query", "handle_a2a_message"}
    /\ b_env \in IF b_entry = "process_stock_query" THEN {DirectCall} ELSE Envelopes
    /\ b_query \in Queries
    /\ b_rc = 0
    /\ b_resp = NoMessage
    /\ b_out = NoMessage
    /\ b_audit = <<>>
    /\ b_calls = <<>>
    /\ b_posts = 0
    /\ b_peer = NoMessage
    /\ b_analysis = "none"

BridgeUnchanged ==
    UNCHANGED <<regVars, callVars, cfgVars, lifeVars, parserVars, b_entry, b_env, b_query>>

Audit(events) == b_audit' = b_audit \o events

Return(out) ==
    /\ b_pc' = "done"
    /\ b_out' = returned(b_entry, b_env, out)

\* The call runs to its first await: the registry lookup of a mentioned
\* agent, or the analysis of the ticker.
BridgeCall ==
    /\ b_pc = "called"
    /\ LET mention == parse_agent_mention(Parsed.query)
           intent == parse_query_intent(Parsed.query)
           cid == Parsed.conversation_id
       IN IF b_entry = "handle_a2a_message" /\ Parsed.raises
          THEN Return(Raised("AttributeError")) /\ UNCHANGED <<b_rc, b_resp, b_audit>>
          ELSE /\ Audit(<<incoming>>)
               /\ IF mention.target # <<>>
                  THEN IF cfg_registry
                       THEN b_pc' = "lookup" /\ UNCHANGED <<b_rc, b_resp, b_out>>
                       ELSE /\ b_resp' = ErrorDict("Registry not configured")
                            /\ Return(forwarded(b_resp', cid))
                            /\ UNCHANGED b_rc
                  ELSE IF ~intent.valid
                  THEN /\ Return(format_error_response(
                                     IF intent.ticker = "None" THEN {} ELSE {"ticker"},
                                     cid, "INVALID_QUERY", {"suggestions"}))
                       /\ UNCHANGED <<b_rc, b_resp>>
                  ELSE b_pc' = "analysis" /\ UNCHANGED <<b_rc, b_resp, b_out>>
    /\ b_calls' = IF b_pc' = "analysis"
                  THEN Append(b_calls, analysis_args(Parsed.query,
                                                     parse_query_intent(Parsed.query)))
                  ELSE b_calls
    /\ bridge_registry_session' = IF b_pc' = "lookup"
                                  THEN get_session(bridge_registry_session)
                                  ELSE bridge_registry_session
    /\ UNCHANGED <<b_posts, b_peer, b_analysis, bridge_session, bridge_registered>>
    /\ BridgeUnchanged

\* The registry answers the lookup (RegistryClient.lookup_agent with its
\* retries); with a URL the message is posted to the peer.
LookupRespond(o) ==
    /\ b_pc = "lookup"
    /\ LET r == make_request(o, b_rc, max_retries) IN
       IF r.do = "retry"
       THEN /\ b_rc' = b_rc + 1
            /\ bridge_registry_session' = get_session(bridge_registry_session)
            /\ UNCHANGED <<b_pc, b_resp, b_out, b_audit, b_posts, bridge_session,
                           bridge_registered>>
       ELSE /\ bridge_registered' = lookup_agent(r.value, bridge_registered).registered
            /\ UNCHANGED bridge_registry_session
            /\ IF lookup_agent(r.value, bridge_registered).ret = "None"
               THEN /\ b_resp' = ErrorDict("Agent not found")
                    /\ Return(forwarded(b_resp', Parsed.conversation_id))
                    /\ UNCHANGED <<b_rc, b_audit, b_posts, bridge_session>>
               ELSE /\ b_pc' = "post"
                    /\ Audit(<<sending>>)
                    /\ b_posts' = b_posts + 1
                    /\ bridge_session' = get_session(bridge_session)
                    /\ UNCHANGED <<b_rc, b_resp, b_out>>
    /\ UNCHANGED <<b_calls, b_peer, b_analysis>>
    /\ BridgeUnchanged

\* The peer answers the POST, or the request fails.
PeerRespond(p) ==
    /\ b_pc = "post"
    /\ b_resp' = posted(p)
    /\ b_peer' = p
    /\ Audit(posted_audit(p))
    /\ Return(forwarded(b_resp', Parsed.conversation_id))
    /\ UNCHANGED <<b_rc, b_calls, b_posts, b_analysis, sessionVars>>
    /\ BridgeUnchanged

\* perform_complete_analysis returns or raises.
AnalysisReturns(a) ==
    /\ b_pc = "analysis"
    /\ Return(analysed(a, Parsed.conversation_id))
    /\ b_analysis' = a
    /\ Audit(analysed_audit(a))
    /\ UNCHANGED <<b_rc, b_resp, b_calls, b_posts, b_peer, sessionVars>>
    /\ BridgeUnchanged

LookupOutcomes ==
    { [kind |-> "status", status |-> 200, body |-> "dict_url"],
      [kind |-> "status", status |-> 200, body |-> "dict_plain"],
      [kind |-> "status", status |-> 404, body |-> "null"],
      [kind |-> "status", status |-> 500, body |-> "null"],
      [kind |-> "TimeoutError", status |-> 0, body |-> "null"] }

NextBridge ==
    \/ BridgeCall
    \/ \E o \in LookupOutcomes : LookupRespond(o)
    \/ \E p \in PeerOutcomes : PeerRespond(p)
    \/ \E a \in AnalysisOutcomes : AnalysisReturns(a)

SpecBridge == InitBridge /\ [][NextBridge]_vars

(***************************************************************************)
(* SpecParser: one call of parse_agent_mention (and a second one on the    *)
(* remainder it returned), of parse_query_intent or of is_valid_ticker,    *)
(* for every text of a bounded alphabet.                                   *)
(***************************************************************************)
MaxMentionLen == 7
MaxTextLen == 5
MaxTickerLen == 6

NoWordsInARow(q) == \A i \in 1..(Len(q) - 1) : ~(q[i] \in Words /\ q[i + 1] \in Words)

MentionAlphabet == {"@", " ", "\n", "advisor"}
MentionTexts == {q \in SeqsUpTo(MentionAlphabet, MaxMentionLen) : NoWordsInARow(q)}

TextAlphabet ==
    {" ", "$", "what", "is", "check", "info", "on", "the", "THE", "AAPL", "TSLA",
     KelvinSign}
IntentTexts == {q \in SeqsUpTo(TextAlphabet, MaxTextLen) : NoWordsInARow(q)}

RECURSIVE StringsUpTo(_, _)
StringsUpTo(A, n) ==
    IF n = 0 THEN {""}
    ELSE LET shorter == StringsUpTo(A, n - 1) IN
         shorter \cup {w \o c : w \in {x \in shorter : Len(x) = n - 1}, c \in A}

TickerChars == {"A", "a", "1", ".", " "}
TickerStrings == StringsUpTo(TickerChars, MaxTickerLen)

InitParser ==
    /\ registered = FALSE
    /\ session = "none"
    /\ max_retries = DefaultMaxRetries
    /\ retry_delay = DefaultRetryDelay
    /\ InitCall
    /\ InitCfgIdle
    /\ InitTasks
    /\ InitNoMessage
    /\ p_pc = "called"
    /\ p_fn \in {"parse_agent_mention", "parse_query_intent", "is_valid_ticker"}
    /\ p_text \in CASE p_fn = "parse_agent_mention" -> MentionTexts
                   [] p_fn = "parse_query_intent" -> IntentTexts
                   [] OTHER -> {<<>>}
    /\ p_str \in IF p_fn = "is_valid_ticker" THEN TickerStrings ELSE {""}
    /\ p_ret = "none"
    /\ p_again = "none"

ParserUnchanged ==
    UNCHANGED <<regVars, callVars, cfgVars, lifeVars, messageVars, sessionVars,
                p_fn, p_text, p_str>>

ParseMention ==
    /\ p_pc = "called" /\ p_fn = "parse_agent_mention"
    /\ p_ret' = parse_agent_mention(p_text)
    /\ p_pc' = "again"
    /\ UNCHANGED p_again
    /\ ParserUnchanged

\* The caller parses the remainder once more.
ParseRemainder ==
    /\ p_pc = "again"
    /\ p_again' = parse_agent_mention(p_ret.remaining)
    /\ p_pc' = "done"
    /\ UNCHANGED p_ret
    /\ ParserUnchanged

ParseIntent ==
    /\ p_pc = "called" /\ p_fn = "parse_query_intent"
    /\ p_ret' = parse_query_intent(p_text)
    /\ p_pc' = "done"
    /\ UNCHANGED p_again
    /\ ParserUnchanged

ValidateTicker ==
    /\ p_pc = "called" /\ p_fn = "is_valid_ticker"
    /\ p_ret' = is_valid_ticker(p_str)
    /\ p_pc' = "done"
    /\ UNCHANGED p_again
    /\ ParserUnchanged

NextParser == ParseMention \/ ParseRemainder \/ ParseIntent \/ ValidateTicker

SpecParser == InitParser /\ [][NextParser]_vars

(***************************************************************************)
(* SpecServe: an adapter with its bridge.  The adapter is started and      *)
(* stopped with start_async / stop_async and runs its heartbeat, and while *)
(* it is running its bridge is called once with a query.                   *)
(***************************************************************************)
ServeQueries == {<<"@", "advisor", " ", "AAPL">>, <<"AAPL">>}

InitServe ==
    /\ registered = FALSE
    /\ session = "none"
    /\ max_retries = DefaultMaxRetries
    /\ retry_delay = DefaultRetryDelay
    /\ InitCall
    /\ cfg_registry \in BOOLEAN
    /\ InitNest({EnabledConfig})
    /\ a2a_ok = TRUE
    /\ InitTasks
    /\ InitParserIdle
    /\ InitSessions
    /\ b_pc = "called"
    /\ b_entry = "process_stock_query"
    /\ b_env = DirectCall
    /\ b_query \in ServeQueries
    /\ b_rc = 0
    /\ b_resp = NoMessage
    /\ b_out = NoMessage
    /\ b_audit = <<>>
    /\ b_calls = <<>>
    /\ b_posts = 0
    /\ b_peer = NoMessage
    /\ b_analysis = "none"

\* The A2A server of the running adapter passes a query to the bridge.
ServeCall == a_running /\ BridgeCall

NextServe ==
    \/ UserStartAsync(TRUE)
    \/ UserStopAsync
    \/ \E t \in {User} \cup HbTasks : \E o \in LifeOutcomes : LifeRespond(t, o)
    \/ \E t \in HbTasks : HbStart(t)
    \/ \E t \in HbTasks : HbWake(t)
    \/ \E t \in HbTasks : HbHealth(t)
    \/ ServeCall
    \/ \E o \in LookupOutcomes : LookupRespond(o)
    \/ \E p \in PeerOutcomes : PeerRespond(p)
    \/ \E a \in AnalysisOutcomes : AnalysisReturns(a)

SpecServe == InitServe /\ [][NextServe]_vars

(***************************************************************************)
(* SpecMain: main() of the launcher, for every configuration: it calls the *)
(* start method the configuration selects; signals arrive and the server   *)
(* ends; peers ask the adapter for its status and for its agent document.  *)
(***************************************************************************)
InitMain ==
    /\ registered = FALSE
    /\ session = "none"
    /\ max_retries = DefaultMaxRetries
    /\ retry_delay = DefaultRetryDelay
    /\ InitCall
    /\ cfg_registry = FALSE
    /\ InitNest(Configs)
    /\ a2a_ok = TRUE
    /\ InitTasks
    /\ InitBridgeIdle

MainRun == Launch(main_mode(config))

DocUnchanged ==
    UNCHANGED <<regVars, callVars, cfg_registry, cfg_nest_ok, a2a_ok, config,
                lifeVars, bridgeVars>>

\* A peer reads get_status() of the adapter (adapter.py:472-511).
GetStatus ==
    /\ nest_adapter
    /\ peer_doc' = [via |-> "get_status", agent_config |-> get_status(S).agent_config]
    /\ DocUnchanged

\* A peer requests /nest/config (health.py:318-346).
NestConfig ==
    /\ peer_doc' = IF nest_adapter
                   THEN [via |-> "/nest/config",
                         agent_config |-> get_agent_config(config)]
                   ELSE [via |-> "/nest/config", status |-> "disabled"]
    /\ DocUnchanged

NextMain ==
    \/ MainRun
    \/ Signal
    \/ ServeEnds(1)
    \/ EventWaitDone
    \/ DualWake
    \/ CancelledTaskEnds
    \/ DualResume
    \/ NestWake
    \/ GetStatus
    \/ NestConfig

SpecMain == InitMain /\ [][NextMain]_vars

\* An outbound A2A message: role "agent", content {text, type: "text"} and a
\* conversation_id.
WellFormed(out) ==
    /\ out.kind = "dict"
    /\ out.role = "agent"
    /\ out.content = "typed"
    /\ out.cid # "none"

\* C4 (as stated): process_stock_query and handle_a2a_message never raise,
\* and what they return is a well-formed outbound message, whatever the
\* inbound message, the registry, the peer and the analysis service do.
C4_BridgeNeverRaises == b_pc = "done" => WellFormed(b_out)

\* process_stock_query was entered.
QueryStarted ==
    b_pc \notin {"idle", "called"} /\ ~(b_entry = "handle_a2a_message" /\ Parsed.raises)

\* process_stock_query was entered and has returned or raised.
QueryHandled == b_pc = "done" /\ ~(b_entry = "handle_a2a_message" /\ Parsed.raises)

\* An event that reports how the attempt ended, not that it began or that
\* the message is about to be sent.
Outcome(e) == e.status \notin {"processing", "sending"}

OutcomeEvents == {k \in 1..Len(b_audit) : Outcome(b_audit[k])}

\* C20 (as stated): whichever branch an inbound query takes, the bridge
\* emits the incoming-query audit event first and then exactly one outcome
\* audit event, and that event carries the elapsed time in milliseconds.
C20_OneOutcomeEventPerQuery ==
    QueryHandled =>
        /\ Len(b_audit) >= 1
        /\ b_audit[1] = incoming
        /\ Cardinality(OutcomeEvents) = 1
        /\ \A k \in OutcomeEvents : k > 1 /\ b_audit[k].processing_time_ms

\* The query carries a mention, as parse_agent_mention reads it.
Mentioned == QueryStarted /\ parse_agent_mention(Parsed.query).target # <<>>

\* The registry lookup of the target returned null.
LookupMissed == b_pc = "done" /\ b_resp = ErrorDict("Agent not found")

\* An error response with suggestions.
ErrorWithSuggestions(out) ==
    WellFormed(out) /\ out.code # "none" /\ "suggestions" \in out.text

PostFailed == b_pc = "done" /\ b_peer.kind \in {"status", "TimeoutError", "ClientError"}

\* C22: a forward whose lookup succeeded sends exactly one POST, after the
\* lookup has returned, and never a second one: an error status, a timeout
\* or a connection error ends the call at once with an error message that
\* carries suggestions.
C22_OnePostNoRetry ==
    /\ [](/\ b_posts <= 1
          /\ b_pc = "lookup" => b_posts = 0
          /\ b_pc = "post" => b_posts = 1
          /\ b_peer # NoMessage => b_pc = "done" /\ b_posts = 1
          /\ PostFailed => ErrorWithSuggestions(b_out))
    /\ [][b_pc = "post" => b_pc' = "done" /\ b_posts' = b_posts]_vars

C22_Witness == PostFailed /\ b_peer.kind = "TimeoutError" /\ b_posts = 1

\* The peer answered the POST with status 200 and a JSON body.
PeerAnswered == b_pc = "done" /\ b_peer.kind = "json"

\* ... and the body is an object with a content object and no error member.
PeerAnsweredContent ==
    /\ PeerAnswered
    /\ b_peer.body.kind = "dict"
    /\ "content" \in b_peer.body.has
    /\ "error" \notin b_peer.body.has
    /\ b_peer.body.content \in {"typed", "untyped"}

Annotated(out) == out.kind = "dict" /\ {"annotation", "target"} \subseteq out.text

\* C23 (as stated): every forward the peer answers successfully returns the
\* peer's text behind the "Forwarded to @target" annotation, and no other
\* branch adds the annotation.
C23_AnnotationAsStated ==
    /\ PeerAnswered => Annotated(b_out) /\ "peer_text" \in b_out.text
    /\ b_pc = "done" /\ Annotated(b_out) => PeerAnswered

\* C23 (amended): the annotation is put before the text of every 200 answer
\* that is an object with a content object and no error member, and is
\* added on no other branch.
C23_Annotation ==
    /\ PeerAnsweredContent =>
          /\ Annotated(b_out)
          /\ b_peer.body.text \subseteq b_out.text
          /\ b_out.has = b_peer.body.has
    /\ b_pc = "done" /\ Annotated(b_out) => PeerAnsweredContent

C23_Witness ==
    PeerAnsweredContent /\ b_out.text = {"annotation", "target", "peer_text"}

\* The query carries no mention and process_stock_query parsed its intent.
NotMentioned == QueryStarted /\ parse_agent_mention(Parsed.query).target = <<>>

\* C24: without a mention, an invalid query is answered with an error
\* message carrying suggestions and the analysis collaborator is never
\* called; a valid query calls it exactly once, with the extracted ticker
\* and the query text as it came.
C24_AnalysisCalledOnce ==
    /\ NotMentioned /\ ~parse_query_intent(Parsed.query).valid =>
          /\ b_calls = <<>>
          /\ b_pc = "done"
          /\ ErrorWithSuggestions(b_out)
    /\ NotMentioned /\ parse_query_intent(Parsed.query).valid =>
          /\ b_pc \in {"analysis", "done"}
          /\ b_calls = << [ticker |-> extract_ticker_from_query(Parsed.query),
                           query_text |-> Parsed.query] >>

C24_Witness ==
    /\ NotMentioned
    /\ b_pc = "done"
    /\ Len(b_calls) = 1
    /\ b_calls[1].ticker = "AAPL"
    /\ Parsed.query # strip(Parsed.query)

\* C25: a result without a recommendation gives an error message that
\* cites the result's summary, an exception of the collaborator gives an
\* error message that includes the exception's text; neither gives an
\* analysis message and neither lets the exception out.
C25_AnalysisFailures ==
    /\ b_pc = "done" /\ b_analysis = "no_recommendation" =>
          /\ WellFormed(b_out)
          /\ b_out.code = "ANALYSIS_FAILED"
          /\ "summary" \in b_out.text
          /\ "analysis" \notin b_out.text
    /\ b_pc = "done" /\ b_analysis = "raises" =>
          /\ WellFormed(b_out)
          /\ b_out.code = "ANALYSIS_ERROR"
          /\ "failure" \in b_out.text
          /\ "analysis" \notin b_out.text

C25_Witness ==
    b_pc = "done" /\ b_analysis = "raises" /\ b_entry = "process_stock_query"

\* C26 (as stated): whatever branch a query with conversation id c takes,
\* the message process_stock_query returns carries conversation_id = c.
C26_ConversationIdKept ==
    b_pc = "done" /\ b_entry = "process_stock_query" /\ b_out.kind = "dict" =>
        b_out.cid = Parsed.conversation_id

\* A text that is a mention: "@", an id of words and hyphens, white space
\* and a remainder on one line, white space around the text aside.
MentionShape(m, n, k) ==
    /\ n + k + 2 <= Len(m)
    /\ m[1] = "@"
    /\ \A i \in 2..(n + 1) : m[i] \in IdChars
    /\ \A i \in (n + 2)..(n + k + 1) : m[i] \in Spaces
    /\ m[n + k + 2] \notin Spaces
    /\ \A i \in (n + k + 2)..Len(m) : m[i] # "\n"

ExpectedMention(q) ==
    LET m == strip(q)
        shapes == {s \in (1..Len(m)) \X (1..Len(m)) : MentionShape(m, s[1], s[2])}
    IN IF shapes = {}
       THEN [target |-> <<>>, remaining |-> q]
       ELSE LET s == CHOOSE s \in shapes : TRUE
            IN [target |-> SubSeq(m, 2, s[1] + 1),
                remaining |-> SubSeq(m, s[1] + s[2] + 2, Len(m))]

MentionParsed == p_fn = "parse_agent_mention" /\ p_pc = "done"

\* C27 (as stated): parse_agent_mention returns (target, remainder) for a
\* text that is "@" + token + white space + remainder and (null, text)
\* otherwise, and parsing the remainder it returned finds no further
\* mention, for every text.
C27_MentionParsedOnce ==
    MentionParsed =>
        /\ p_ret = ExpectedMention(p_text)
        /\ p_again.target = <<>>

IntentParsed == p_fn = "parse_query_intent" /\ p_pc = "done"

\* The rules that yield a token for the text.
Matching(text) == {k \in 1..5 : pattern(k, strip(text)) # "None"}

C29_NoStopWordTicker ==
    IntentParsed => p_ret.ticker \notin common_words

TickerChecked == p_fn = "is_valid_ticker" /\ p_pc = "done"

Letters(w) == \A i \in 1..Len(w) : SubSeq(w, i, i) \in AsciiUpper

\* C30 (as stated): is_valid_ticker is true of every string of 1 to 5
\* upper-case letters, and false of every string whose length is not 1 to
\* 5, whose first character is no letter, or that is all digits once its
\* dots are removed.
C30_ValidTicker ==
    TickerChecked =>
        /\ Len(p_str) \in 1..5 /\ Letters(p_str) => p_ret
        /\ Len(p_str) \notin 1..5 => ~p_ret
        /\ p_str # "" /\ Head(p_str) \notin AsciiUpper \cup AsciiLower => ~p_ret
        /\ isdigit(str_remove(p_str, ".")) => ~p_ret

\* stop_async has returned to its caller, having run past its guard.
StopCompleted ==
    /\ u_last = "stop_async"
    /\ u_res = "ok"
    /\ pc[User] = "idle"
    /\ n_stops > 0

\* C31 (as stated): once the adapter's stop has completed (and the bridge
\* is not in the middle of a query), no HTTP session is left open: not the
\* session of the adapter's RegistryClient, not the bridge's peer-forwarding
\* session, not the session of the bridge's own RegistryClient.
C31_NoSessionLeftOpen ==
    StopCompleted /\ b_pc = "done" =>
        /\ session # "open"
        /\ bridge_session # "open"
        /\ bridge_registry_session # "open"

\* main() has called the start method it selected.
MainStarted == mode # "none"

\* "non-empty agent id and name, port in 1..65535, at least one capability"
ValidationPasses(c) ==
    /\ c.agent_id # ""
    /\ c.agent_name # ""
    /\ c.nest_port \in 1..65535
    /\ c.capabilities # <<>>

\* The start method refused to run, and main() ends with exit status 1.
FailedToStart == pc[Main] = "rejected" \/ pc[Main] = "raised"

\* C32 (as stated): main() selects one of the three modes; it selects
\* agent-only or dual mode only when the integration is enabled and its
\* validation passes, and for every other configuration, the dual-mode flag
\* included, it starts in standalone mode, the validation errors itemized,
\* and does not fail to start.
C32_ModeFromConfiguration ==
    MainStarted =>
        /\ mode \in Modes
        /\ mode \in {"nest", "dual"} =>
               config.enable_nest /\ ValidationPasses(config)
        /\ ~(config.enable_nest /\ ValidationPasses(config)) =>
               /\ mode = "standalone"
               /\ ~FailedToStart
               /\ config.enable_nest => validate(config).errors # <<>>

\* A peer has been served an agent document.
DocumentServed == "agent_config" \in DOMAIN peer_doc

\* The document the same request gets from an adapter configured with c.
DocumentOf(via, c) ==
    IF via = "get_status"
    THEN get_agent_config_for_communication(c)
    ELSE get_agent_config(c)

\* C33 (as stated): the agent document served to a peer, by get_status or
\* by /nest/config, has no API key in it, and it is the document any
\* configuration that differs only in the API key would have produced.
C33_NoApiKeyInPeerDocument ==
    DocumentServed =>
        /\ "anthropic_api_key" \notin DOMAIN peer_doc.agent_config
        /\ \A c \in Configs :
              [c EXCEPT !.anthropic_api_key = config.anthropic_api_key] = config
                  => DocumentOf(peer_doc.via, c) = peer_doc.agent_config

\* Heartbeat loop t has found `while self._is_running` true and is inside
\* an iteration: in the health probe or in update_status.
InIteration(t) == pc[t] = "hb_health" \/ pc[t] = "http"

\* C34 (as stated): whatever start and stop calls are made on the adapter,
\* at most one heartbeat loop is active at any time.
C34_OneHeartbeatLoop ==
    Cardinality({t \in HbTasks : InIteration(t)}) <= 1

\* The stop sequence has sent the DELETE of deregister and awaits the answer.
DeregistrationIssued ==
    /\ ~a_running
    /\ \E t \in Tasks : pc[t] = "http" /\ rq[t].op = "deregister"

\* In this step heartbeat loop t sends a status update (a PUT), for the
\* first time in its iteration or as a retry.
StatusUpdateSent(t) ==
    /\ pc'[t] = "http"
    /\ rq'[t].op = "update_status"
    /\ pc[t] # "http" \/ rq'[t].rc # rq[t].rc

\* C35 (as stated): once the stop has issued the deregistration request, the
\* adapter sends no further status update, whatever a heartbeat iteration
\* in flight was doing.
C35_NoHeartbeatAfterDeregistration ==
    [][DeregistrationIssued => \A t \in HbTasks : ~StatusUpdateSent(t)]_vars

\* The start_nest / start_dual call has returned and no stop sequence is
\* still running.
ShutdownCompleted ==
    /\ mode \in {"nest", "dual"}
    /\ pc[Main] = "done"
    /\ \A t \in ShutTasks \cup {User} \cup DeregTasks : pc[t] # "http"

\* C36 (as stated): when the launcher's shutdown has completed, the registry
\* client's registered flag is false, in every interleaving of shutdown()
\* with the start call.  (Only shutdowns in which the registry refused no
\* DELETE are looked at: those in which none was sent.)
C36_NotLeftRegistered ==
    ShutdownCompleted /\ n_dereg = 0 => ~registered

\* A DELETE sent by deregister() has not been answered yet.
DeregistrationInFlight ==
    \E t \in Tasks : pc[t] = "http" /\ rq[t].op = "deregister"

\* C37 (as stated): in stop and in stop_async the registry session is
\* closed only when the deregistration request has completed: it is never
\* closed while the request is in flight.
C37_CloseAfterDeregistration ==
    DeregistrationInFlight => session = "open"

\* The start_nest / start_dual call has ended and is_running() is false.
LauncherCallEnded ==
    /\ mode \in {"nest", "dual"}
    /\ pc[Main] \in {"done", "raised", "cancelled"}
    /\ ~l_running

\* C38 (as stated): whenever the start_nest or start_dual call has ended,
\* by returning, raising or being cancelled, and the launcher is not
\* running, the adapter it created is not running either.
C38_NoAdapterWithoutLauncher ==
    LauncherCallEnded => ~a_running

\* C39 (as stated): with a registry configured, in every reachable state
\* the registry_connected that the bridge's health status reports (the
\* payload of every heartbeat) is the registry.registered that get_status
\* reports.
C39_OneRegisteredFlag ==
    cfg_registry =>
        get_health_status.registry_connected = get_status(S).registry.registered

\* C40 (as stated): parse_query_intent reports valid = true exactly when a
\* ticker was extracted from the text: no text gives a ticker that is
\* found and then rejected as invalid.
C40_ExtractedTickerIsValid ==
    IntentParsed /\ p_text # <<>> => (p_ret.valid <=> p_ret.ticker # "None")

====
